---- MODULE Spec2Model ----
(***************************************************************************)
(* A model of screw_maker.py (class Screw): the cached recess / chamfer    *)
(* factories, alone and under two callers, createScrew with length         *)
(* resolution, diameter resolution, the thread engines with their helices  *)
(* and the tuning factor, makeInnerThread_2, and the outline of the        *)
(* hexalobular recess.                                                     *)
(*                                                                         *)
(* Python floats are binary64 numbers with the rounding of the hardware;   *)
(* shapes are records that name the source variable the geometry comes     *)
(* from, since the B-rep kernel is outside the file.                       *)
(***************************************************************************)
EXTENDS Integers, Sequences, FiniteSets, TLC

VARIABLES
    FSCache,    \* FastenerBase.FSCache: key -> reference to the stored object(s)
    heap,       \* the shape objects built so far, per key, in build order
    ret,        \* what the last factory call did and returned
    ncalls,     \* number of factory calls made so far
    callers,    \* the factory call each concurrent caller is in, and its step
    LenStr,     \* getLength: the argument of the call
    LenTerms,   \* the inch terms LenStr was written from (<<>>: not recorded)
    LenResult,  \* getLength: what the call returned or raised
    printCfg,   \* the instance's sm3DPrintMode and its four scale attributes
    diaCall,    \* the last call of getDia: arguments and result
    threadCall, \* the last call of the thread cutter engine: arguments and result
    nutCall,    \* the last call of makeInnerThread_2: arguments and result
    hexlobCall, \* the outline makeIso10664_3 built last: size code, depth, arcs
    self,       \* the Screw instance: objAvailable, Tuner, leftHanded
    attached,   \* the builder functions attached to class Screw so far
    fastenerAttribs,    \* the request object createScrew is called with
    screwCall   \* the last call of createScrew: what it did and gave

cacheVars == <<FSCache, heap, ret, ncalls, callers>>
lenVars == <<LenStr, LenTerms, LenResult>>
diaVars == <<printCfg, diaCall>>
screwVars == <<self, attached, fastenerAttribs, screwCall>>

vars == <<cacheVars, lenVars, diaVars, threadCall, nutCall, hexlobCall, screwVars>>

None == <<>>

(***************************************************************************)
(* Bounds of the model.                                                    *)
(***************************************************************************)
MaxCalls == 3
MaxBody == 3        \* longest body of an enumerated length string
MaxTerms == 2       \* most terms of a written inch expression
MaxPitchTenths == 10
MaxBlenHalves == 20
MaxTlenFours == 3
MaxRotations == 5   \* most turns of an internal thread

(***************************************************************************)
(* The Geometry Cache and the factories that use it.                       *)
(***************************************************************************)

\* Parameter values the factories are called with.
Heights == {0, 2}
\* The heights a caller moves a returned object to.
MovedHeights == {5}
AllenArgs == {<<3, 1, h, t2>> : h \in Heights, t2 \in {0, 1}}
CrossArgs == {<<"2", 7, h>> : h \in Heights} \cup {<<"9", 7, 0>>}
IsoArgs == {<<"T20", 3, h>> : h \in Heights} \cup {<<"T0", 3, 0>>}
ChamferArgs == {<<4, 1, l>> : l \in {10, 20}}

\* FsData["iso10664def"]: the rows (A, B, Re) of ISO 10664 by size code, in
\* thousandths of a millimetre.
Iso10664Def ==
    "T6"   :> <<1750, 1205, 140>> @@
    "T8"   :> <<2400, 1670, 200>> @@
    "T10"  :> <<2800, 1980, 240>> @@
    "T15"  :> <<3350, 2350, 280>> @@
    "T20"  :> <<3950, 2750, 320>> @@
    "T25"  :> <<4500, 3160, 390>> @@
    "T30"  :> <<5600, 3950, 460>> @@
    "T40"  :> <<6750, 4760, 560>> @@
    "T45"  :> <<7930, 5550, 660>> @@
    "T50"  :> <<8950, 6360, 780>> @@
    "T55"  :> <<11350, 7920, 770>> @@
    "T60"  :> <<13450, 9480, 1070>> @@
    "T70"  :> <<15700, 11080, 1200>> @@
    "T80"  :> <<17750, 12640, 1530>> @@
    "T90"  :> <<20200, 14220, 1540>> @@
    "T100" :> <<22400, 15810, 1730>>

\* The size codes the dimension tables FsData["iso4757def"] and
\* FsData["iso10664def"] hold; any other code is a KeyError on lookup.
Iso4757Codes == {"2"}
Iso10664Codes == DOMAIN Iso10664Def

\* FastenerBase.FSGetKey(*args): the key, and the cached object or None.
FSKey(name, args) == <<name>> \o args

AllKeys ==
    {FSKey("Allen2Tool", a) : a \in AllenArgs}
        \cup {FSKey("CrossRecess", a) : a \in CrossArgs}
        \cup {FSKey("HexalobularTool", a) : a \in IsoArgs}
        \cup {FSKey("CrhamferTool", a) : a \in ChamferArgs}

FSGetKey(name, args) ==
    LET key == FSKey(name, args)
    IN  <<key, IF key \in DOMAIN FSCache THEN FSCache[key] ELSE None>>

\* A shape object: the source variable its geometry is, whether the
\* round-over / corner cut has been applied to it, and its Placement height.
Shape(of, cut, z) == [of |-> of, cut |-> cut, z |-> z]

\* The object(s) a reference <<key, generation>> names.
Deref(ref) == heap[ref[1]][ref[2]]

PlacementsOf(objs) == [i \in DOMAIN objs |-> objs[i].z]

\* An object returned to a caller is the cached object itself (an alias).
Returned(op, key, hit, ref, objs) ==
    [op |-> op, key |-> key, outcome |-> "returned", hit |-> hit,
     ref |-> ref, zs |-> PlacementsOf(objs)]

\* A table lookup on the miss path raised before anything was constructed.
Raised(op, key, err) ==
    [op |-> op, key |-> key, outcome |-> err, hit |-> FALSE,
     ref |-> None, zs |-> <<>>]

\* FastenerBase.FSCache[key] = obj
CacheStore(cache, key, ref) ==
    [k \in DOMAIN cache \cup {key} |-> IF k = key THEN ref ELSE cache[k]]

\* The miss path of a factory that lacks its FSCache[key] = ... line.
BuildStoreReturn_noStore(op, key, objs) ==
    /\ heap' = [heap EXCEPT ![key] = Append(@, objs)]
    /\ ret' = Returned(op, key, FALSE, <<key, Len(heap[key]) + 1>>, objs)
    /\ UNCHANGED FSCache

\* The miss path of every factory: construct, store under key, return.
BuildStoreReturn(op, key, objs) ==
    LET gen == Len(heap[key]) + 1
    IN  /\ heap' = [heap EXCEPT ![key] = Append(@, objs)]
        /\ FSCache' = CacheStore(FSCache, key, <<key, gen>>)
        /\ ret' = Returned(op, key, FALSE, <<key, gen>>, objs)

\* makeAllen2, hit: both placements are reset to the requested height.
AllenHitPlacement(objs, h_a) ==
    [i \in DOMAIN objs |-> [objs[i] EXCEPT !.z = h_a]]

\* The pair a factory would store if it kept the cut result as its solid.
AllenBuild_cutSolid(s_a, t_a, h_a, t_2) ==
    <<Shape("allen", TRUE, h_a), Shape("allen", TRUE, h_a)>>

\* makeAllen2, miss: allen = solidHex.cut(roundtool); the shell is made of
\* allen's faces, and the pair stored is (solidHex, allenShell).
AllenBuild(s_a, t_a, h_a, t_2) ==
    <<Shape("solidHex", FALSE, h_a), Shape("allen", TRUE, h_a)>>

\* A factory that builds and stores on every call, hit or miss.
makeAllen2_storeOnHit(s_a, t_a, h_a, t_2) ==
    /\ ncalls < MaxCalls
    /\ ncalls' = ncalls + 1
    /\ BuildStoreReturn("makeAllen2", FSKey("Allen2Tool", <<s_a, t_a, h_a, t_2>>),
                        AllenBuild(s_a, t_a, h_a, t_2))

makeAllen2(s_a, t_a, h_a, t_2) ==
    /\ ncalls < MaxCalls
    /\ ncalls' = ncalls + 1
    /\ LET kr == FSGetKey("Allen2Tool", <<s_a, t_a, h_a, t_2>>)
           key == kr[1]
           res == kr[2]
       IN  IF res # None
           THEN LET objs == AllenHitPlacement(Deref(res), h_a)
                IN  /\ heap' = [heap EXCEPT ![res[1]][res[2]] = objs]
                    /\ ret' = Returned("makeAllen2", key, TRUE, res, objs)
                    /\ UNCHANGED FSCache
           ELSE BuildStoreReturn("makeAllen2", key, AllenBuild(s_a, t_a, h_a, t_2))

\* makeCross_H3, hit: "return res", the cached pair as it is.
CrossHitPlacement(objs, h) == objs

\* makeCross_H3, miss: the revolved body with the four corners cut out; solid
\* and shell are both made of the faces of the cut results (crossFaces).
CrossBuild(CrossType, m, h) ==
    <<Shape("cross", TRUE, h), Shape("crossShell0", TRUE, h)>>

makeCross_H3(CrossType, m, h) ==
    /\ ncalls < MaxCalls
    /\ ncalls' = ncalls + 1
    /\ LET kr == FSGetKey("CrossRecess", <<CrossType, m, h>>)
           key == kr[1]
           res == kr[2]
       IN  IF res # None
           THEN LET objs == CrossHitPlacement(Deref(res), h)
                IN  /\ heap' = [heap EXCEPT ![res[1]][res[2]] = objs]
                    /\ ret' = Returned("makeCross_H3", key, TRUE, res, objs)
                    /\ UNCHANGED FSCache
           ELSE IF CrossType \notin Iso4757Codes
                THEN /\ ret' = Raised("makeCross_H3", key, "KeyError")
                     /\ UNCHANGED <<FSCache, heap>>
                ELSE BuildStoreReturn("makeCross_H3", key, CrossBuild(CrossType, m, h))

\* makeIso10664_3, hit: "return res", the cached pair as it is.
IsoHitPlacement(objs, h_hl) == objs

\* makeIso10664_3, miss: hexlob = Helo.cut(cutTool); the shell is made of
\* hexlob's faces, and the pair stored is (Helo, hexlobShell).
IsoBuild(RType, t_hl, h_hl) ==
    <<Shape("Helo", FALSE, h_hl), Shape("hexlob", TRUE, h_hl)>>

\* cutChamfer, miss: the revolved chamfer face; its Placement is never set.
ChamferBuild(dia_cC, P_cC, l_cC) == <<Shape("cyl", FALSE, 0)>>

cutChamfer(dia_cC, P_cC, l_cC) ==
    /\ ncalls < MaxCalls
    /\ ncalls' = ncalls + 1
    /\ LET kr == FSGetKey("CrhamferTool", <<dia_cC, P_cC, l_cC>>)
           key == kr[1]
           res == kr[2]
       IN  IF res # None
           THEN /\ ret' = Returned("cutChamfer", key, TRUE, res, Deref(res))
                /\ UNCHANGED <<FSCache, heap>>
           ELSE BuildStoreReturn("cutChamfer", key, ChamferBuild(dia_cC, P_cC, l_cC))

\* A caller moves an object a factory returned to it: the object is the
\* cached one, so the cached Placement moves with it.
MovePlacement(key, gen, i, z) ==
    /\ gen \in DOMAIN heap[key]
    /\ i \in DOMAIN heap[key][gen]
    /\ heap[key][gen][i].z # z
    /\ heap' = [heap EXCEPT ![key][gen][i].z = z]
    /\ UNCHANGED <<FSCache, ret, ncalls>>


(***************************************************************************)
(* The same factories run by two callers at once.  A factory is three      *)
(* steps: the lookup (FSGetKey and the test of its result), the            *)
(* construction, and the store with the return; no lock is held across     *)
(* them, so the steps of the callers interleave in any order.              *)
(***************************************************************************)
Callers == {1, 2}

\* A caller outside any factory call.
IdleCaller == [pc |-> "idle", op |-> "none", args |-> <<>>, key |-> <<>>, hit |-> FALSE,
               out |-> None]

RaceOps == {"makeAllen2", "cutChamfer"}
RaceKeyName(op) == IF op = "makeAllen2" THEN "Allen2Tool" ELSE "CrhamferTool"
RaceArgs(op) == IF op = "makeAllen2" THEN AllenArgs ELSE ChamferArgs

\* What the factory constructs on its miss path, and what it does to the
\* cached object on its hit path.
RaceBuilt(op, args) ==
    IF op = "makeAllen2" THEN AllenBuild(args[1], args[2], args[3], args[4])
    ELSE ChamferBuild(args[1], args[2], args[3])
RaceHit(op, args, objs) ==
    IF op = "makeAllen2" THEN AllenHitPlacement(objs, args[3]) ELSE objs

\* key, res = FSGetKey(...); if res is not None: ... return res
RaceLookup(c, op, args) ==
    /\ callers[c].pc \in {"idle", "done"}
    /\ ncalls < MaxCalls
    /\ ncalls' = ncalls + 1
    /\ LET kr == FSGetKey(RaceKeyName(op), args)
       IN  IF kr[2] # None
           THEN /\ heap' = [heap EXCEPT ![kr[2][1]][kr[2][2]] = RaceHit(op, args, @)]
                /\ callers' = [callers EXCEPT ![c] =
                                  [pc |-> "done", op |-> op, args |-> args, key |-> kr[1],
                                   hit |-> TRUE, out |-> kr[2]]]
           ELSE /\ callers' = [callers EXCEPT ![c] =
                                  [pc |-> "build", op |-> op, args |-> args, key |-> kr[1],
                                   hit |-> FALSE, out |-> None]]
                /\ UNCHANGED heap
    /\ UNCHANGED <<FSCache, ret>>

\* The construction: a new object, known to this caller only.
RaceBuild(c) ==
    /\ callers[c].pc = "build"
    /\ heap' = [heap EXCEPT ![callers[c].key] =
                   Append(@, RaceBuilt(callers[c].op, callers[c].args))]
    /\ callers' = [callers EXCEPT ![c].pc = "store",
                                  ![c].out = <<callers[c].key, Len(heap[callers[c].key]) + 1>>]
    /\ UNCHANGED <<FSCache, ret, ncalls>>

\* A store that keeps the entry another caller made in the meantime and
\* returns that one.
RaceStore_keepFirst(c) ==
    /\ callers[c].pc = "store"
    /\ FSCache' = IF callers[c].key \in DOMAIN FSCache THEN FSCache
                  ELSE CacheStore(FSCache, callers[c].key, callers[c].out)
    /\ callers' = [callers EXCEPT ![c].pc = "done", ![c].out = FSCache'[callers[c].key]]
    /\ UNCHANGED <<heap, ret, ncalls>>

\* FastenerBase.FSCache[key] = obj; return obj
RaceStore(c) ==
    /\ callers[c].pc = "store"
    /\ FSCache' = CacheStore(FSCache, callers[c].key, callers[c].out)
    /\ callers' = [callers EXCEPT ![c].pc = "done"]
    /\ UNCHANGED <<heap, ret, ncalls>>
(***************************************************************************)
(* Python values.  A float is an IEEE-754 binary64 number: its sign sg,    *)
(* its 53-bit significand m and its exponent ex, the value sg * m * 2^ex.  *)
(* A significand does not fit an integer of the checker, so a natural      *)
(* number of any size is the sequence of its digits in base Limb, the      *)
(* least significant first and the most significant not 0.  Every float    *)
(* operation gives the exact result rounded to the nearest float, a tie to *)
(* the even significand, as the hardware does; the exponent is not         *)
(* bounded (no overflow, no subnormal numbers) and zero has no sign.       *)
(***************************************************************************)
Limb == 2 ^ 14

\* The value of an expression that is evaluated before it is used: the
\* element of {e}.  The operations on floats take their arguments so.
The(S) == CHOOSE v \in S : TRUE

RECURSIVE Trim(_)
Trim(a) == IF a = <<>> \/ a[Len(a)] # 0 THEN a ELSE Trim(SubSeq(a, 1, Len(a) - 1))

RECURSIVE BigOfInt(_)
BigOfInt(k) == IF k = 0 THEN <<>> ELSE <<k % Limb>> \o BigOfInt(k \div Limb)

RECURSIVE BigToInt(_)
BigToInt(a) == IF a = <<>> THEN 0 ELSE Head(a) + Limb * BigToInt(Tail(a))

RECURSIVE BigCmpFrom(_, _, _)
BigCmpFrom(a, b, i) ==
    IF i = 0 THEN 0
    ELSE IF a[i] < b[i] THEN -1
    ELSE IF a[i] > b[i] THEN 1
    ELSE BigCmpFrom(a, b, i - 1)

\* -1, 0 or 1 as a is less than, equal to or greater than b.
BigCmp(a, b) ==
    IF Len(a) < Len(b) THEN -1
    ELSE IF Len(a) > Len(b) THEN 1
    ELSE BigCmpFrom(a, b, Len(a))

\* The lowest digit of a (0 when a is 0) and the digits above it.
Low(a) == IF a = <<>> THEN 0 ELSE Head(a)
High(a) == IF a = <<>> THEN a ELSE Tail(a)

RECURSIVE BigAddC(_, _, _)
BigAddC(a, b, c) ==
    IF a = <<>> /\ b = <<>> THEN (IF c = 0 THEN <<>> ELSE <<c>>)
    ELSE <<(Low(a) + Low(b) + c) % Limb>>
             \o BigAddC(High(a), High(b), (Low(a) + Low(b) + c) \div Limb)
BigAdd(a, b) == BigAddC(a, b, 0)

\* a - b for a >= b
RECURSIVE BigSubB(_, _, _)
BigSubB(a, b, borrow) ==
    IF a = <<>> THEN <<>>
    ELSE <<(Head(a) - Low(b) - borrow + Limb) % Limb>>
             \o BigSubB(Tail(a), High(b), IF Head(a) - Low(b) - borrow < 0 THEN 1 ELSE 0)
BigSub(a, b) == Trim(BigSubB(a, b, 0))

\* a * k for 0 <= k <= Limb
RECURSIVE BigMulSmallC(_, _, _)
BigMulSmallC(a, k, c) ==
    IF a = <<>> THEN BigOfInt(c)
    ELSE <<(Head(a) * k + c) % Limb>> \o BigMulSmallC(Tail(a), k, (Head(a) * k + c) \div Limb)
BigMulSmall(a, k) == IF k = 0 THEN <<>> ELSE BigMulSmallC(a, k, 0)

RECURSIVE BigMul(_, _)
BigMul(a, b) ==
    IF a = <<>> \/ b = <<>> THEN <<>>
    ELSE BigAdd(BigMulSmall(a, Head(b)),
                IF Tail(b) = <<>> THEN <<>> ELSE <<0>> \o BigMul(a, Tail(b)))

\* a divided by k, 0 < k <= Limb, from the highest digit down: q holds the
\* digits of the quotient found so far and r the remainder carried down.
RECURSIVE BigDivSmallFrom(_, _, _, _)
BigDivSmallFrom(a, k, r, q) ==
    IF Len(q) = Len(a) THEN q
    ELSE BigDivSmallFrom(a, k, (r * Limb + a[Len(a) - Len(q)]) % k,
                         <<(r * Limb + a[Len(a) - Len(q)]) \div k>> \o q)
BigDivSmall(a, k) == Trim(BigDivSmallFrom(a, k, 0, <<>>))

\* a * 2^k and floor(a / 2^k)
BigShl(a, k) ==
    IF a = <<>> THEN <<>>
    ELSE [i \in 1..(k \div 14) |-> 0] \o BigMulSmall(a, 2 ^ (k % 14))
BigShr(a, k) ==
    IF k \div 14 >= Len(a) THEN <<>>
    ELSE BigDivSmall(SubSeq(a, (k \div 14) + 1, Len(a)), 2 ^ (k % 14))

\* The number of bits of a digit and of a number.
IntBitLen(k) == CHOOSE n \in 0..14 : k < 2 ^ n /\ (n = 0 \/ 2 ^ (n - 1) <= k)
BigBitLen(a) == IF a = <<>> THEN 0 ELSE 14 * (Len(a) - 1) + IntBitLen(a[Len(a)])

\* One digit of a quotient: the largest q with q * b <= r, found from the
\* leading digits of r and b (b's leading digit at least Limb / 2, r < b * Limb).
RECURSIVE BigDigitDown(_, _, _)
BigDigitDown(r, b, q) ==
    IF BigCmp(BigMulSmall(b, q), r) > 0 THEN BigDigitDown(r, b, q - 1) ELSE q
BigDigitGuess(r, b, n) ==
    ((IF Len(r) > n THEN r[n + 1] * Limb ELSE 0) + (IF Len(r) >= n THEN r[n] ELSE 0)) \div b[n]
BigDigitFrom(r, b, guess) == BigDigitDown(r, b, IF guess >= Limb THEN Limb - 1 ELSE guess)
BigDigit(r, b) == BigDigitFrom(r, b, BigDigitGuess(r, b, Len(b)))

\* a divided by b from the highest digit down: q holds the digits of the
\* quotient found so far, r the remainder carried down, x is r with the next
\* digit of a put below it, and d the digit of the quotient that x gives.
RECURSIVE BigDivFrom(_, _, _, _)
RECURSIVE BigDivDigit(_, _, _, _, _)
BigDivFrom(a, b, r, q) ==
    IF Len(q) = Len(a) THEN <<Trim(q), r # <<>>>>
    ELSE BigDivDigit(a, b, Trim(<<a[Len(a) - Len(q)]>> \o r), q,
                     BigDigit(Trim(<<a[Len(a) - Len(q)]>> \o r), b))
BigDivDigit(a, b, x, q, d) == BigDivFrom(a, b, BigSub(x, BigMulSmall(b, d)), <<d>> \o q)

\* <<floor(a / b), whether b does not divide a>> for b # 0: both are shifted
\* to make the leading digit of b at least Limb / 2.
BigDivShifted(a, b, s) == BigDivFrom(BigShl(a, s), BigShl(b, s), <<>>, <<>>)
BigDivMod(a, b) == BigDivShifted(a, b, 14 - IntBitLen(b[Len(b)]))

PyNone == [t |-> "None", s |-> <<>>, n |-> 0, sg |-> 0, ex |-> 0, m |-> <<>>]
PyInt(k) == [t |-> "int", s |-> <<>>, n |-> k, sg |-> 0, ex |-> 0, m |-> <<>>]
PyStr(chars) == [t |-> "str", s |-> chars, n |-> 0, sg |-> 0, ex |-> 0, m |-> <<>>]

\* The float sg * m * 2^ex of a significand of exactly 53 bits, and 0.0.
Binary64(sg, m, ex) == [t |-> "float", s |-> <<>>, n |-> 0, sg |-> sg, ex |-> ex, m |-> m]
FloatZero == Binary64(0, <<>>, 0)

\* The float nearest to sg * (m + f) * 2^ex, where 0 <= f < 1 and f # 0 just
\* when sticky; with sticky, m has more than 54 bits.  The bits of m below
\* the 53 leading ones are compared with the half of the last place (c), and
\* a tie goes to the even significand q.
RoundsUp(c, sticky, q) == c > 0 \/ (c = 0 /\ (sticky \/ q[1] % 2 = 1))
RoundCarry(sg, q, ex) ==
    IF BigBitLen(q) > 53 THEN Binary64(sg, BigShr(q, 1), ex + 1) ELSE Binary64(sg, q, ex)
RoundBelow(sg, m, ex, sticky, shift, q) ==
    RoundCarry(sg,
               IF RoundsUp(BigCmp(BigSub(m, BigShl(q, shift)), BigShl(<<1>>, shift - 1)),
                           sticky, q)
               THEN BigAdd(q, <<1>>) ELSE q,
               ex + shift)
RoundBits(sg, m, ex, sticky, n) ==
    IF n <= 53 THEN Binary64(sg, BigShl(m, 53 - n), ex - (53 - n))
    ELSE RoundBelow(sg, m, ex, sticky, n - 53, BigShr(m, n - 53))
Nearest(sg, m, ex, sticky) ==
    IF m = <<>> THEN FloatZero ELSE RoundBits(sg, m, ex, sticky, BigBitLen(m))
Round(sg, m, ex, sticky) ==
    The({Nearest(a, b, c, d) : a \in {sg}, b \in {m}, c \in {ex}, d \in {sticky}})

\* The float a decimal or a fraction num/den writes (den > 0), and int -> float.
RoundQuotient(sg, qr, ex) == The({Nearest(sg, v[1], ex, v[2]) : v \in {qr}})
Ratio(sg, num, d, k) == RoundQuotient(sg, BigDivMod(BigShl(BigOfInt(num), k), d), -k)
PyFloat(num, den) ==
    IF num = 0 THEN FloatZero
    ELSE The({Ratio(IF num < 0 THEN -1 ELSE 1, IF num < 0 THEN -num ELSE num, d,
                    56 + BigBitLen(d)) : d \in {BigOfInt(den)}})
Float(k) == PyFloat(k, 1)
ToFloat(x) == IF x.t = "int" THEN Float(x.n) ELSE x

FloatNeg(x) == [x EXCEPT !.sg = -x.sg]

\* The significands of x and y over their smaller exponent e.
AlignedAt(x, y, e) == [a |-> BigShl(x.m, x.ex - e), b |-> BigShl(y.m, y.ex - e), ex |-> e]
Aligned(x, y) == AlignedAt(x, y, IF x.ex < y.ex THEN x.ex ELSE y.ex)

AddSigned(x, y, al, c) ==
    IF x.sg = y.sg THEN Round(x.sg, BigAdd(al.a, al.b), al.ex, FALSE)
    ELSE IF c = 0 THEN FloatZero
    ELSE IF c > 0 THEN Round(x.sg, BigSub(al.a, al.b), al.ex, FALSE)
    ELSE Round(y.sg, BigSub(al.b, al.a), al.ex, FALSE)
AddAligned(x, y, al) == AddSigned(x, y, al, BigCmp(al.a, al.b))
Sum(x, y) ==
    IF x.sg = 0 THEN y
    ELSE IF y.sg = 0 THEN x
    ELSE AddAligned(x, y, Aligned(x, y))
FloatAdd(x, y) == The({Sum(a, b) : a \in {x}, b \in {y}})
FloatSub(x, y) == FloatAdd(x, FloatNeg(y))

Product(x, y) ==
    IF x.sg = 0 \/ y.sg = 0 THEN FloatZero
    ELSE Round(x.sg * y.sg, BigMul(x.m, y.m), x.ex + y.ex, FALSE)
FloatMul(x, y) == The({Product(a, b) : a \in {x}, b \in {y}})

\* x / y for y # 0
Quotient(x, y) ==
    IF x.sg = 0 THEN FloatZero
    ELSE RoundQuotient(x.sg * y.sg, BigDivMod(BigShl(x.m, 56), y.m), x.ex - y.ex - 56)
FloatDiv(x, y) == The({Quotient(a, b) : a \in {x}, b \in {y}})

\* -1, 0 or 1 as x is less than, equal to or greater than y.
CmpAligned(sg, al) == sg * BigCmp(al.a, al.b)
Compare(x, y) ==
    IF x.sg # y.sg THEN (IF x.sg < y.sg THEN -1 ELSE 1)
    ELSE IF x.sg = 0 THEN 0
    ELSE CmpAligned(x.sg, Aligned(x, y))
FloatCmp(x, y) == The({Compare(a, b) : a \in {x}, b \in {y}})
FloatLess(x, y) == FloatCmp(x, y) < 0

\* floor(x / y) for y # 0, a natural number of any size with its sign.
FloorSigned(x, y, qr) ==
    IF x.sg = y.sg THEN [sg |-> IF qr[1] = <<>> THEN 0 ELSE 1, q |-> qr[1]]
    ELSE [sg |-> -1, q |-> IF qr[2] THEN BigAdd(qr[1], <<1>>) ELSE qr[1]]
FloorAligned(x, y, al) == FloorSigned(x, y, BigDivMod(al.a, al.b))
FloorOfQuotient(x, y) ==
    IF x.sg = 0 THEN [sg |-> 0, q |-> <<>>] ELSE FloorAligned(x, y, Aligned(x, y))
FloorQuotient(x, y) == The({FloorOfQuotient(a, b) : a \in {x}, b \in {y}})

FloatOfSigned(f) == Round(f.sg, f.q, 0, FALSE)

\* fmod(x, y) for y # 0: the remainder of |x| by |y| with the sign of x; it
\* is a float without rounding.
ModAligned(x, al, q) ==
    The({IF r = <<>> THEN FloatZero ELSE Round(x.sg, r, al.ex, FALSE) :
            r \in {BigSub(al.a, BigMul(q, al.b))}})
ModOf(x, al) == ModAligned(x, al, BigDivMod(al.a, al.b)[1])
FloatMod(x, y) == IF x.sg = 0 THEN FloatZero ELSE ModOf(x, Aligned(x, y))

\* x // y of two floats, as the interpreter computes it:
\*   mod = fmod(x, y); div = (x - mod) / y;
\*   if mod and (y < 0) != (mod < 0): div -= 1.0
\*   floordiv = floor(div); if div - floordiv > 0.5: floordiv += 1.0
FloorDivNearest(div, floordiv) ==
    IF FloatLess(PyFloat(1, 2), FloatSub(div, floordiv)) THEN FloatAdd(floordiv, Float(1))
    ELSE floordiv
FloorDivFloor(div) ==
    IF div.sg = 0 THEN FloatZero
    ELSE The({FloorDivNearest(d, FloatOfSigned(FloorQuotient(d, Float(1)))) : d \in {div}})
FloorDivMod(x, y, mod) ==
    FloorDivFloor(IF mod.sg # 0 /\ (y.sg < 0) # (mod.sg < 0)
                  THEN FloatSub(FloatDiv(FloatSub(x, mod), y), Float(1))
                  ELSE FloatDiv(FloatSub(x, mod), y))
FloorDiv(x, y) == The({FloorDivMod(a, b, FloatMod(a, b)) : a \in {x}, b \in {y}})

\* math.floor(x), an int.
IntOfSigned(f) == PyInt(f.sg * BigToInt(f.q))
Floor(x) == IntOfSigned(FloorQuotient(x, Float(1)))

\* math.sqrt(3) = 0x1.bb67ae8584caap+0
Sqrt3 == Binary64(1, BigAdd(BigShl(BigOfInt(29058990), 28), BigOfInt(140004522)), -52)

\* What a call gives: a value, or the exception it raised.
Ok(val) == [ok |-> TRUE, err |-> "", val |-> val]
Err(name) == [ok |-> FALSE, err |-> name, val |-> PyNone]

(***************************************************************************)
(* Python strings: strip, split, in, and float(str).                       *)
(***************************************************************************)
DigitChars == <<"0", "1", "2", "3", "4", "5", "6", "7", "8", "9">>
Digits == {DigitChars[i] : i \in 1..10}
DigitVal(c) == (CHOOSE i \in 1..10 : DigitChars[i] = c) - 1

RECURSIVE Pow10(_)
Pow10(k) == IF k = 0 THEN 1 ELSE 10 * Pow10(k - 1)

\* The number a sequence of digit characters writes (0 for the empty one).
RECURSIVE DigitsValue(_)
DigitsValue(cs) ==
    IF cs = <<>> THEN 0
    ELSE 10 * DigitsValue(SubSeq(cs, 1, Len(cs) - 1)) + DigitVal(cs[Len(cs)])

AllDigits(cs) == \A i \in 1..Len(cs) : cs[i] \in Digits

\* str.strip(chars) and str.strip(): the ends are cut back while their
\* character is one of chars.
Strip(cs, chars) ==
    LET keep == {i \in 1..Len(cs) : cs[i] \notin chars}
    IN  IF keep = {} THEN <<>>
        ELSE LET lo == CHOOSE i \in keep : \A j \in keep : i <= j
                 hi == CHOOSE i \in keep : \A j \in keep : j <= i
             IN  SubSeq(cs, lo, hi)

\* str.split(sep) for a one-character sep: one item more than there are
\* separators, empty items included.
RECURSIVE Split(_, _)
Split(cs, sep) ==
    IF \A i \in 1..Len(cs) : cs[i] # sep THEN <<cs>>
    ELSE LET at == CHOOSE i \in 1..Len(cs) :
                       cs[i] = sep /\ \A j \in 1..(i - 1) : cs[j] # sep
         IN  <<SubSeq(cs, 1, at - 1)>> \o Split(SubSeq(cs, at + 1, Len(cs)), sep)

\* sub in str, for a two-character sub.
Contains2(cs, c1, c2) == \E i \in 1..(Len(cs) - 1) : cs[i] = c1 /\ cs[i + 1] = c2

\* float(str) over the characters of the model: surrounding blanks are
\* dropped, then digits with at most one "." and at least one digit; anything
\* else is a ValueError.
float(cs) ==
    LET body == Strip(cs, {" "})
        dots == {i \in 1..Len(body) : body[i] = "."}
    IN  IF dots = {}
        THEN IF body # <<>> /\ AllDigits(body)
             THEN Ok(PyFloat(DigitsValue(body), 1))
             ELSE Err("ValueError")
        ELSE LET at == CHOOSE i \in dots : \A j \in dots : i <= j
                 whole == SubSeq(body, 1, at - 1)
                 frac == SubSeq(body, at + 1, Len(body))
             IN  IF AllDigits(whole) /\ AllDigits(frac) /\ Len(whole) + Len(frac) > 0
                 THEN Ok(PyFloat(DigitsValue(whole) * Pow10(Len(frac)) + DigitsValue(frac),
                                 Pow10(Len(frac))))
                 ELSE Err("ValueError")

(***************************************************************************)
(* Screw.getLength                                                         *)
(***************************************************************************)
MmPerInch == PyFloat(254, 10)

\* One item of an inch expression: "a/b" is float(a) / float(b), the parts
\* after the second being ignored; anything else is float(item).
InchItem(item) ==
    IF \E i \in 1..Len(item) : item[i] = "/"
    THEN LET subcmpts == Split(item, "/")
             num == float(subcmpts[1])
             den == float(subcmpts[2])
         IN  IF ~num.ok THEN num
             ELSE IF ~den.ok THEN den
             ELSE IF den.val.sg = 0 THEN Err("ZeroDivisionError")
             ELSE Ok(FloatDiv(num.val, den.val))
    ELSE float(item)

\* for item in components: total += ...; the first item that raises ends it.
RECURSIVE SumItems(_, _)
SumItems(components, total) ==
    IF components = <<>> THEN Ok(total)
    ELSE LET x == InchItem(Head(components))
         IN  IF ~x.ok THEN x ELSE SumItems(Tail(components), FloatAdd(ToFloat(total), x.val))

\* The inch branch without its conversion to millimetres.
getLength_noInchFactor(arg) ==
    IF arg.t = "int" THEN Ok(arg)
    ELSE IF arg.t # "str" THEN Err("TypeError")
    ELSE IF ~Contains2(arg.s, "i", "n") THEN float(arg.s)
    ELSE SumItems(Split(Strip(arg.s, {"i", "n"}), " "), PyInt(0))

getLength(arg) ==
    IF arg.t = "int" THEN Ok(arg)
    ELSE IF arg.t # "str" THEN Err("TypeError")
    ELSE IF ~Contains2(arg.s, "i", "n") THEN float(arg.s)
    ELSE LET total == SumItems(Split(Strip(arg.s, {"i", "n"}), " "), PyInt(0))
         IN  IF total.ok THEN Ok(FloatMul(total.val, MmPerInch)) ELSE total

\* The length strings the model enumerates: every body of at most MaxBody
\* characters, alone and followed by "in".
BodyAlphabet == {"0", "1", "2", ".", "/", " ", "i", "n", "x"}
BodyStrings == UNION {[1..k -> BodyAlphabet] : k \in 0..MaxBody}
EnumStrings == BodyStrings \cup {b \o <<"i", "n">> : b \in BodyStrings}

\* Inch expressions written out from their terms: a term <<a, 0>> is the whole
\* number a, a term <<a, b>> with b > 0 the fraction a/b.
TermNumerators == {0, 1, 3, 12}
TermDenominators == {0, 2, 3, 16}
Terms == TermNumerators \X TermDenominators
TermSeqs == UNION {[1..k -> Terms] : k \in 1..MaxTerms}

RECURSIVE WriteNat(_)
WriteNat(k) ==
    IF k < 10 THEN <<DigitChars[k + 1]>> ELSE WriteNat(k \div 10) \o <<DigitChars[(k % 10) + 1]>>

WriteTerm(term) ==
    IF term[2] = 0 THEN WriteNat(term[1]) ELSE WriteNat(term[1]) \o <<"/">> \o WriteNat(term[2])

RECURSIVE WriteTerms(_)
WriteTerms(ts) ==
    IF Len(ts) = 1 THEN WriteTerm(ts[1])
    ELSE WriteTerm(ts[1]) \o <<" ">> \o WriteTerms(Tail(ts))

WriteInch(ts) == WriteTerms(ts) \o <<"i", "n">>

\* The exact sum of the terms, as a pair <<numerator, denominator>>.
RECURSIVE TermSum(_)
TermSum(ts) ==
    IF ts = <<>> THEN <<0, 1>>
    ELSE LET rest == TermSum(Tail(ts))
             a == ts[1][1]
             b == IF ts[1][2] = 0 THEN 1 ELSE ts[1][2]
         IN  <<a * rest[2] + rest[1] * b, b * rest[2]>>

\* The arguments getLength is called with.
LenArgs ==
    {PyStr(cs) : cs \in EnumStrings}
        \cup {PyInt(k) : k \in {0, 1, 10}}
        \cup {PyFloat(10, 1), PyFloat(127, 10)}

Pending == [ok |-> FALSE, err |-> "pending", val |-> PyNone]

\* A call of getLength on the argument drawn at the start.
GetLengthCall ==
    /\ LenResult = Pending
    /\ LenResult' = getLength(LenStr)
    /\ UNCHANGED <<LenStr, LenTerms>>

(***************************************************************************)
(* The thread cutter engine: CreateThreadCutter, makeShellthread and the   *)
(* wood-screw thread makeDin7998Thread.  Each gives a record: whether it   *)
(* returned (ok) or raised (err), the kernel operations it performed in    *)
(* order (ops), and the numbers it computed.  The operations listed are    *)
(* those that make or change a helix or a solid; the profile wires, which  *)
(* are moved into place before a sweep, are not listed.  Whether a sweep   *)
(* is ready is the kernel's answer, an input of the model.                 *)
(***************************************************************************)
\* Part.makeLongHelix(pitch, height, radius, 0, leftHanded)
Helix(pitch, height, radius, leftHanded) ==
    [pitch |-> pitch, height |-> height, radius |-> radius, left |-> leftHanded]

\* trotations = blen // P + 1 without its "+ 1".
Trotations_noMargin(blen, P) == FloorDiv(blen, P)

\* trotations = blen // P + 1
Trotations(blen, P) == FloatAdd(FloorDiv(blen, P), Float(1))

\* dia / 2 + 0.5 * (5 / 8 * H + 0.5 * fillet_r), the radius of the lead-out helix
LeadOutRadius(dia, P) ==
    LET H == FloatMul(FloatDiv(Sqrt3, Float(2)), P)
        fillet_r == FloatDiv(FloatMul(P, Sqrt3), Float(12))
    IN  FloatAdd(FloatDiv(dia, Float(2)),
                 FloatMul(PyFloat(1, 2),
                          FloatAdd(FloatMul(PyFloat(5, 8), H),
                                   FloatMul(PyFloat(1, 2), fillet_r))))

\* The sweep is built although it is not ready, and the solid is returned.
CreateThreadCutter_ignoresReady(dia, P, blen, leftHanded, ready) ==
    LET helix_height == FloatMul(Trotations(blen, P), P)
    IN  [ok |-> TRUE, err |-> "",
         trotations |-> Trotations(blen, P), helix_height |-> helix_height,
         helices |-> <<Helix(P, helix_height, FloatDiv(dia, Float(2)), leftHanded),
                       Helix(P, FloatDiv(P, Float(2)), LeadOutRadius(dia, P), leftHanded)>>,
         ops |-> <<"makeLongHelix", "makeLongHelix", "rotate", "translate", "sweep:thread",
                   "build", "makeSolid">>]

CreateThreadCutter(dia, P, blen, leftHanded, ready) ==
    LET trotations == Trotations(blen, P)
        helix_height == FloatMul(trotations, P)
        main_helix == Helix(P, helix_height, FloatDiv(dia, Float(2)), leftHanded)
        lead_out_helix == Helix(P, FloatDiv(P, Float(2)), LeadOutRadius(dia, P), leftHanded)
        \* main_helix.rotate(...) and lead_out_helix.translate(...) before the sweep
        swept == <<"makeLongHelix", "makeLongHelix", "rotate", "translate", "sweep:thread">>
    IN  [ok |-> ready,
         err |-> IF ready THEN "" ELSE "RuntimeError",
         trotations |-> trotations,
         helix_height |-> helix_height,
         helices |-> <<main_helix, lead_out_helix>>,
         ops |-> IF ready THEN swept \o <<"build", "makeSolid">> ELSE swept]

\* The offset without the test against minoffset.
ThreadOffset_noFloor(P, blen, tlen) == FloatAdd(FloatSub(blen, tlen), FloatDiv(P, Float(2)))

\* The offset the cutter is moved down by: blen - tlen + P / 2, raised to
\* 5 * P / 8 when it is less.
ThreadOffset(P, blen, tlen) ==
    LET toffset == FloatAdd(FloatSub(blen, tlen), FloatDiv(P, Float(2)))
        minoffset == FloatDiv(FloatMul(Float(5), P), Float(8))
    IN  IF FloatLess(toffset, minoffset) THEN minoffset ELSE toffset

\* The rest of makeShellthread, after the cutter was made or was not.
makeShellthread_cut(cutter, toffset) ==
    IF ~cutter.ok
    THEN [ok |-> FALSE, err |-> cutter.err, shape |-> "none", toffset |-> toffset,
          cap |-> FALSE, helices |-> cutter.helices,
          ops |-> <<"revolve", "makeSolid">> \o cutter.ops]
    ELSE [ok |-> TRUE, err |-> "", shape |-> "Shell", toffset |-> toffset,
          cap |-> toffset.sg < 0, helices |-> cutter.helices,
          ops |-> <<"revolve", "makeSolid">> \o cutter.ops \o <<"translate", "rotate", "cut">>
                    \o (IF toffset.sg < 0 THEN <<"revolve", "makeSolid">> ELSE <<>>)
                    \o <<"Shell", "translate">>]

\* makeShellthread without its first two statements: tlen as it was passed.
makeShellthread_keepsNegative(dia, P, blen, withcham, ztop, tlen, leftHanded, ready) ==
    makeShellthread_cut(CreateThreadCutter(dia, P, blen, leftHanded, ready),
                        ThreadOffset(P, blen, tlen))

makeShellthread(dia, P, blen, withcham, ztop, tlen, leftHanded, ready) ==
    makeShellthread_cut(CreateThreadCutter(dia, P, blen, leftHanded, ready),
                        ThreadOffset(P, blen, IF tlen.sg < 0 THEN blen ELSE tlen))

\* makeDin7998Thread: the tip sweep, then the body sweep, then their fuse.
makeDin7998Thread_sweeps(tipHelix, bodyHelix, readyTip, readyBody) ==
    LET tipOps == <<"makeLongHelix", "sweep:tip">>
        bodyOps == <<"makeLongHelix", "translate", "sweep:body">>
        done == <<"build", "makeSolid", "translate">>
    IN  IF ~readyTip
        THEN [ok |-> FALSE, err |-> "RuntimeError", shape |-> "none",
              helices |-> <<tipHelix>>, ops |-> tipOps]
        ELSE IF ~readyBody
        THEN [ok |-> FALSE, err |-> "RuntimeError", shape |-> "none",
              helices |-> <<tipHelix, bodyHelix>>, ops |-> tipOps \o done \o bodyOps]
        ELSE [ok |-> TRUE, err |-> "", shape |-> "Solid",
              helices |-> <<tipHelix, bodyHelix>>,
              ops |-> tipOps \o done \o bodyOps \o done \o <<"fuse", "rotate">>]

makeDin7998Thread(zs, ze, zt, ri, ro, p, leftHanded, readyTip, readyBody) ==
    makeDin7998Thread_sweeps(
        \* numTurns = math.floor(tipH / p), tipH = ze - zt
        Helix(p, FloatMul(ToFloat(Floor(FloatDiv(FloatSub(ze, zt), p))), p), PyInt(5),
              leftHanded),
        Helix(p, FloatSub(zs, ze), PyInt(5), leftHanded),
        readyTip, readyBody)

\* The arguments of a call that is still to be made.
ThreadArgs(op, dia, P, blen, withcham, tlen, leftHanded, ready) ==
    [op |-> op, dia |-> dia, P |-> P, blen |-> blen, tlen |-> tlen, withcham |-> withcham,
     leftHanded |-> leftHanded, ready |-> ready, done |-> FALSE, result |-> <<>>]

\* The call of CreateThreadCutter on the arguments drawn at the start.
CallCreateThreadCutter ==
    /\ threadCall.op = "CreateThreadCutter" /\ ~threadCall.done
    /\ threadCall' =
           [threadCall EXCEPT
               !.done = TRUE,
               !.result = CreateThreadCutter(threadCall.dia, threadCall.P, threadCall.blen,
                                             threadCall.leftHanded, threadCall.ready)]

\* The call of makeShellthread on the arguments drawn at the start.
CallMakeShellthread ==
    /\ threadCall.op = "makeShellthread" /\ ~threadCall.done
    /\ threadCall' =
           [threadCall EXCEPT
               !.done = TRUE,
               !.result = makeShellthread(threadCall.dia, threadCall.P, threadCall.blen,
                                          threadCall.withcham, Float(0), threadCall.tlen,
                                          threadCall.leftHanded, threadCall.ready)]

NoThreadCall ==
    ThreadArgs("none", Float(0), Float(0), Float(0), FALSE, Float(0), FALSE, FALSE)

\* Pitches in tenths of a millimetre, body lengths in halves, and thread
\* lengths that are shorter and longer than the bodies.
Pitches == {PyFloat(k, 10) : k \in 1..MaxPitchTenths}
BodyLengths == {PyFloat(k, 2) : k \in 0..MaxBlenHalves}
ThreadLengths == {Float(-1)} \cup {Float(4 * k) : k \in 0..MaxTlenFours}

(***************************************************************************)
(* Screw.getDia and the 3D-print scaling attributes of the instance.       *)
(***************************************************************************)

\* FsData["DiaList"]: thread label -> (nominal diameter, ...).
DiaLabels == {<<"M", "5">>, <<"M", "6">>}
DiaList(label) == IF label = <<"M", "5">> THEN Float(5) ELSE Float(6)

\* The thread diameters getDia is called with: labels, bracketed labels, a
\* label the table does not hold, and numbers.
DiaArgs ==
    {PyStr(<<"M", "5">>), PyStr(<<"(", "M", "6", ")">>), PyStr(<<"M", "7">>),
     PyInt(5), PyFloat(7, 2)}

\* The values the scaling attributes are set to, in tenths.
ScaleATenths == {9, 11}
ScaleBTenths == {-2, 0}
\* The float k / 10.0 of each of them.
Tenths == [k \in ScaleATenths \cup ScaleBTenths |-> PyFloat(k, 10)]

\* The print configuration of an instance as __init__ leaves it.
PrintDefaults ==
    [sm3DPrintMode |-> FALSE,
     smNutThrScaleA |-> PyFloat(10, 10), smNutThrScaleB |-> PyFloat(0, 10),
     smScrewThrScaleA |-> PyFloat(10, 10), smScrewThrScaleB |-> PyFloat(0, 10)]

\* The scaling with the nut branch reading the screw's scale factor.
Scaled_nutUsesScrewA(cfg, dia, isNut) ==
    IF isNut
    THEN FloatAdd(FloatMul(cfg.smScrewThrScaleA, ToFloat(dia)), cfg.smNutThrScaleB)
    ELSE FloatAdd(FloatMul(cfg.smScrewThrScaleA, ToFloat(dia)), cfg.smScrewThrScaleB)

\* dia = ScaleA * dia + ScaleB with the nut's or the screw's coefficients
Scaled(cfg, dia, isNut) ==
    IF isNut
    THEN FloatAdd(FloatMul(cfg.smNutThrScaleA, ToFloat(dia)), cfg.smNutThrScaleB)
    ELSE FloatAdd(FloatMul(cfg.smScrewThrScaleA, ToFloat(dia)), cfg.smScrewThrScaleB)

getDia(cfg, ThreadDiam, isNut) ==
    LET threadstring == Strip(ThreadDiam.s, {"(", ")"})
    IN  IF ThreadDiam.t = "str" /\ threadstring \notin DiaLabels
        THEN Err("KeyError")
        ELSE LET dia == IF ThreadDiam.t = "str" THEN DiaList(threadstring) ELSE ThreadDiam
             IN  IF cfg.sm3DPrintMode THEN Ok(Scaled(cfg, dia, isNut)) ELSE Ok(dia)

\* The attributes are plain fields that the code using the instance assigns,
\* before a call of getDia or after it.
Configure3DPrint(mode, nutA, nutB, screwA, screwB) ==
    /\ printCfg' = [sm3DPrintMode |-> mode,
                    smNutThrScaleA |-> Tenths[nutA], smNutThrScaleB |-> Tenths[nutB],
                    smScrewThrScaleA |-> Tenths[screwA], smScrewThrScaleB |-> Tenths[screwB]]
    /\ printCfg' # printCfg
    /\ UNCHANGED diaCall

\* A call of getDia: the arguments, the attributes of the instance at the
\* time of the call, and what it gave.
CallGetDia(ThreadDiam, isNut) ==
    /\ diaCall' = [ThreadDiam |-> ThreadDiam, isNut |-> isNut, called |-> TRUE,
                   cfg |-> printCfg, result |-> getDia(printCfg, ThreadDiam, isNut)]
    /\ UNCHANGED printCfg

(***************************************************************************)
(* Screw.createScrew.  The request (fastenerAttribs) is an object of the   *)
(* caller's that createScrew writes to; the builders are functions of the  *)
(* FsFunctions package that are attached to the class on first use.        *)
(***************************************************************************)

\* The builder functions the model dispatches to; the module of any other
\* name, the empty one included, is not found on import.
Builders == {"makeHexHeadBolt", "makeWoodScrew"}
Functions == Builders \cup {""}

\* The kernel's answers to sweep.isReady() that a call of a function can meet,
\* as <<thread sweep, tip sweep, body sweep>>.
ReadyAnswers(function) ==
    IF function = "makeHexHeadBolt" THEN {<<TRUE, TRUE, TRUE>>, <<FALSE, TRUE, TRUE>>}
    ELSE IF function = "makeWoodScrew"
    THEN {<<TRUE, TRUE, TRUE>>, <<TRUE, FALSE, TRUE>>, <<TRUE, TRUE, FALSE>>}
    ELSE {<<TRUE, TRUE, TRUE>>}

\* FsData[type + "def"][diameter], and the diameter and pitch a builder takes
\* from it (or from the custom values of the request).
DimTable(type, diameter) == <<type, diameter>>
NominalDia(diameter) == IF diameter = "M5" THEN Float(5) ELSE Float(6)
Pitch(diameter) == IF diameter = "M5" THEN PyFloat(8, 10) ELSE Float(1)

BuilderResult(r) ==
    [ok |-> r.ok, err |-> r.err, shape |-> r.shape, helices |-> r.helices, ops |-> r.ops]

\* A builder: the hexagon head bolt cuts its thread with makeShellthread over
\* the whole length, the wood screw makes its thread with makeDin7998Thread.
\* Arithmetic on a length of None is a TypeError before any kernel operation.
Builder(function, attribs, leftHanded, ready) ==
    IF attribs.calc_len.t = "None"
    THEN [ok |-> FALSE, err |-> "TypeError", shape |-> "none", helices |-> <<>>, ops |-> <<>>]
    ELSE IF function = "makeHexHeadBolt"
    THEN BuilderResult(makeShellthread(NominalDia(attribs.diameter), Pitch(attribs.diameter),
                                       ToFloat(attribs.calc_len), TRUE, Float(0), Float(-1),
                                       leftHanded, ready[1]))
    ELSE makeDin7998Thread(FloatDiv(ToFloat(attribs.calc_len), Float(-2)),
                           FloatNeg(ToFloat(attribs.calc_len)),
                           FloatMul(ToFloat(attribs.calc_len), Float(-2)),
                           FloatDiv(NominalDia(attribs.diameter), Float(4)),
                           FloatDiv(NominalDia(attribs.diameter), Float(2)),
                           Pitch(attribs.diameter), leftHanded, ready[2], ready[3])

\* What a call of createScrew did: how it ended, what it returned or raised,
\* the builder it ran, the kernel operations of that builder, whether it
\* imported the builder, and the instance and request as they were before.
ScrewCall(function, ready, outcome, err, value, ran, result, imported) ==
    [called |-> TRUE, function |-> function, ready |-> ready, outcome |-> outcome,
     err |-> err, value |-> value, builder |-> ran, ops |-> result.ops, helices |-> result.helices,
     imported |-> imported,
     pre |-> [leftHanded |-> self.leftHanded, attribs |-> fastenerAttribs,
              attached |-> attached]]

NoBuild == [ops |-> <<>>, helices |-> <<>>]

NoScrewCall ==
    [called |-> FALSE, function |-> "", ready |-> <<>>, outcome |-> "none",
     err |-> "", value |-> "none", builder |-> "", ops |-> <<>>, helices |-> <<>>, imported |-> FALSE,
     pre |-> [leftHanded |-> FALSE, attribs |-> PyNone, attached |-> {}]]

\* except ValueError:
Caught(err) == err = "ValueError"

\* The end of a call: what it returned or raised, and no further change.
Ends(function, ready, outcome, err, value, ran, result, imported) ==
    screwCall' = ScrewCall(function, ready, outcome, err, value, ran, result, imported)

\* Lines 139-157: the table of dimensions, the handedness, the builder.
createScrew_build(function, ready, imported, withTable, built) ==
    /\ attached' = attached \cup {function}
    /\ fastenerAttribs' = withTable
    /\ self' = [self EXCEPT !.leftHanded = withTable.leftHanded]
    /\ IF function = ""
       THEN Ends(function, ready, "returned", "", "None", "", NoBuild, imported)
       ELSE IF built.ok
       THEN Ends(function, ready, "returned", "", built.shape, function, built, imported)
       ELSE Ends(function, ready, "raised", built.err, "none", function, built, imported)

\* The builder run with the flag the instance had before the call.
createScrew_dimTable_staleFlag(function, ready, withTable) ==
    \E built \in {Builder(function, withTable, self.leftHanded, ready)} :
        createScrew_build(function, ready, function \notin attached, withTable, built)

createScrew_dimTable(function, ready, withTable) ==
    \E built \in {Builder(function, withTable, withTable.leftHanded, ready)} :
        createScrew_build(function, ready, function \notin attached, withTable, built)

\* Lines 130-142: the import of the builder, after calc_len was replaced.
createScrew_import(function, ready, withLen) ==
    IF function \notin attached /\ function \notin Builders
    THEN \* importlib.import_module raised
         /\ IF Caught("ImportError")
            THEN Ends(function, ready, "returned", "", "None", "", NoBuild, FALSE)
            ELSE Ends(function, ready, "raised", "ImportError", "none", "", NoBuild, FALSE)
         /\ fastenerAttribs' = withLen
         /\ UNCHANGED <<self, attached>>
    ELSE \E withTable \in {[withLen EXCEPT !.dimTable =
                                 IF withLen.diameter = "Custom" THEN <<"None">>
                                 ELSE DimTable(withLen.type, withLen.diameter)]} :
             createScrew_dimTable(function, ready, withTable)

\* Lines 127-136: the length, resolved or not.
createScrew_length(function, ready, resolved) ==
    IF ~resolved.ok
    THEN \* getLength raised: the assignment to calc_len did not happen
         /\ IF Caught(resolved.err)
            THEN Ends(function, ready, "returned", "", "None", "", NoBuild, FALSE)
            ELSE Ends(function, ready, "raised", resolved.err, "none", "", NoBuild, FALSE)
         /\ UNCHANGED <<self, attached, fastenerAttribs>>
    ELSE \E withLen \in {[fastenerAttribs EXCEPT !.calc_len = resolved.val]} :
             createScrew_import(function, ready, withLen)

createScrew(function, ready) ==
    IF ~self.objAvailable
    THEN /\ Ends(function, ready, "returned", "", "None", "", NoBuild, FALSE)
         /\ UNCHANGED <<self, attached, fastenerAttribs>>
    ELSE \E resolved \in {IF fastenerAttribs.calc_len.t # "None"
                           THEN getLength(fastenerAttribs.calc_len)
                           ELSE Ok(fastenerAttribs.calc_len)} :
             createScrew_length(function, ready, resolved)

\* __init__: the attributes of a new instance.
NewScrew == [objAvailable |-> TRUE, Tuner |-> 510, leftHanded |-> FALSE]

\* A caller makes a new instance and goes on with it: every attribute is as
\* __init__ sets it; the builders attached to the class stay attached.
NewInstance ==
    /\ self' = NewScrew
    /\ printCfg' = PrintDefaults
    /\ screwCall' = NoScrewCall
    /\ UNCHANGED <<attached, fastenerAttribs>>

\* A caller makes a new request object.
NewRequest(len, diameter, leftHanded) ==
    /\ fastenerAttribs' = [calc_len |-> len, diameter |-> diameter, type |-> "ISO4017",
                           leftHanded |-> leftHanded, dimTable |-> <<"unset">>]
    /\ fastenerAttribs' # fastenerAttribs
    /\ screwCall' = NoScrewCall
    /\ UNCHANGED <<self, attached>>

\* The lengths of requests: every short string, the strings of the examples,
\* None and an int.
LongStrings ==
    {<<"1", "/", "0", "i", "n">>, <<"1", "/", "x", "i", "n">>, <<"1", " ", " ", "2", "i", "n">>,
     <<"1", " ", "1", "/", "2", "i", "n">>, <<"1", "/", "2", "i", "n">>, <<"1", " ", "i", "n">>}
ShortBodies == UNION {[1..k -> BodyAlphabet] : k \in 0..(MaxBody - 1)}
RequestStrings ==
    ShortBodies \cup {b \o <<"i", "n">> : b \in ShortBodies} \cup LongStrings
RequestLengths == {PyStr(cs) : cs \in RequestStrings} \cup {PyNone, PyInt(1)}
LaterLengths == {PyStr(<<"1", "0">>), PyStr(<<"1", "/", "0", "i", "n">>), PyStr(<<"x">>)}
Diameters == {"M5", "Custom"}

(***************************************************************************)
(* Screw.makeInnerThread_2.  A face of the result is written [src, k]: the *)
(* shape it was taken from and, for a face of a single-turn strip, the     *)
(* number of pitches the strip was moved along the axis.  What the kernel  *)
(* gives for the sweep of the strip (the number of its faces), for a cut   *)
(* or for a general fuse is an input of the model.                         *)
(***************************************************************************)
Face(src, k) == [src |-> src, k |-> k]

\* The faces of the strip copies moved by the pitches from..to, in order.
StripFaces(src, from, to) == [i \in 1..(to - from + 1) |-> Face(src, from + i - 1)]

\* The same for copies moved down: by -from, ..., -to pitches.
StripFacesDown(src, from, to) == [i \in 1..(to - from + 1) |-> Face(src, -(from + i - 1))]

\* The nut case with the check of the top chamfer cut left out.
InnerThreadNut_noTopCutCheck(rotations, nStripFaces, nBottomMap, nTopPartFaces, nTopMap) ==
    LET ops1 == <<"cut:bottom", "generalFuse:bottom", "check:bottomMap">>
        faces3 == <<Face("bottomMap", 0)>> \o StripFaces("bottomPart", 0, 1)
                      \o StripFaces("TheShell", 2, rotations - 2)
                      \o StripFaces("topPart", rotations - 1, rotations)
        ops3 == ops1 \o <<"append:bottomMap", "append:bottomPart", "append:TheShell",
                          "translate:chamferShell", "cut:top", "append:topPart",
                          "generalFuse:top", "check:topMap">>
    IN  IF nBottomMap < 2 THEN [value |-> "None", faces |-> <<>>, ops |-> ops1]
        ELSE IF nTopMap < 2 THEN [value |-> "None", faces |-> faces3, ops |-> ops3]
        ELSE [value |-> "Shell", faces |-> faces3 \o <<Face("topMap", 0)>>,
              ops |-> ops3 \o <<"append:topMap", "Shell">>]

\* makeInnerThread_2 with da given (the shell of a nut).
InnerThreadNut(rotations, nStripFaces, nBottomMap, nTopPartFaces, nTopMap) ==
    LET \* threeThreadFaces: the strip where it was swept and one pitch up
        nChamferFaces == nStripFaces + nStripFaces
        ops1 == <<"cut:bottom", "generalFuse:bottom", "check:bottomMap">>
        faces1 == <<Face("bottomMap", 0)>> \o StripFaces("bottomPart", 0, 1)
        \* for k in range(1, rotations - 2): one more pitch up each time
        faces2 == faces1 \o StripFaces("TheShell", 2, rotations - 2)
        ops2 == ops1 \o <<"append:bottomMap", "append:bottomPart", "append:TheShell",
                          "translate:chamferShell", "cut:top", "check:topPart">>
        \* chamferShell moved up by rotations - 1 pitches, then cut
        faces3 == faces2 \o StripFaces("topPart", rotations - 1, rotations)
        ops3 == ops2 \o <<"append:topPart", "generalFuse:top", "check:topMap">>
        faces4 == faces3 \o <<Face("topMap", 0)>>
        ops4 == ops3 \o <<"append:topMap", "Shell">>
    IN  IF nBottomMap < 2 THEN [value |-> "None", faces |-> <<>>, ops |-> ops1]
        ELSE IF nTopPartFaces > nChamferFaces
        THEN [value |-> "None", faces |-> faces2, ops |-> ops2]
        ELSE IF nTopMap < 2 THEN [value |-> "None", faces |-> faces3, ops |-> ops3]
        ELSE [value |-> "Shell", faces |-> faces4, ops |-> ops4]

\* The turns of the loop `for i in range(rotations - 2)`.
TapTurns(rotations) == IF rotations > 2 THEN rotations - 2 ELSE 0

\* makeInnerThread_2 with da None (a screw tap): the top turn capped, the
\* turns below it, and two more turns, whatever rotations is, cut to length
\* and capped.
InnerThreadTap(rotations) ==
    [value |-> "Solid",
     faces |-> <<Face("top_face", 0)>> \o StripFacesDown("topShell", 0, 0)
                   \o StripFacesDown("TheShell", 1, TapTurns(rotations))
                   \o StripFacesDown("BotShell", TapTurns(rotations) + 1,
                                     TapTurns(rotations) + 2)
                   \o <<Face("bot_face", 0)>>,
     ops |-> <<"common:top", "Face:top", "append:TheShell", "common:bottom", "Face:bottom",
               "Shell", "Solid">>]

makeInnerThread_2(d, P, rotations, da, l, nStripFaces, nBottomMap, nTopPartFaces, nTopMap) ==
    IF da.t = "None" THEN InnerThreadTap(rotations)
    ELSE InnerThreadNut(rotations, nStripFaces, nBottomMap, nTopPartFaces, nTopMap)

\* The arguments of a call that is still to be made, with the kernel's answers.
NutArgs(d, P, rotations, da, l, nStripFaces, nBottomMap, nTopPartFaces, nTopMap) ==
    [called |-> FALSE, d |-> d, P |-> P, rotations |-> rotations, da |-> da,
     l |-> l, nStripFaces |-> nStripFaces, nBottomMap |-> nBottomMap,
     nTopPartFaces |-> nTopPartFaces,
     nTopMap |-> nTopMap, result |-> [value |-> "none", faces |-> <<>>, ops |-> <<>>]]

\* The call of makeInnerThread_2 on the arguments drawn at the start.
CallInnerThread ==
    /\ ~nutCall.called /\ nutCall.rotations > 0
    /\ nutCall' =
           [nutCall EXCEPT
               !.called = TRUE,
               !.result = makeInnerThread_2(nutCall.d, nutCall.P, nutCall.rotations,
                                            nutCall.da, nutCall.l, nutCall.nStripFaces,
                                            nutCall.nBottomMap, nutCall.nTopPartFaces,
                                            nutCall.nTopMap)]

NoNutCall == NutArgs(Float(0), Float(0), 0, PyNone, Float(0), 0, 0, 0, 0)

(***************************************************************************)
(* The helices the engines sweep along, and Screw.setTuner.  Every engine  *)
(* calls Part.makeLongHelix(pitch, height, radius, 0, self.leftHanded).    *)
(***************************************************************************)
\* setTuner(myTuner): self.Tuner = myTuner
setTuner(myTuner) ==
    /\ myTuner # self.Tuner
    /\ self' = [self EXCEPT !.Tuner = myTuner]

\* d * self.Tuner / 1000.0
TunedRadius(d, Tuner) == FloatDiv(FloatMul(ToFloat(d), Float(Tuner)), Float(1000))

\* makeInnerThread_2: one turn of the strip, its length the pitch.
InnerThreadHelix(d, P, Tuner, leftHanded) == Helix(P, P, TunedRadius(d, Tuner), leftHanded)

\* CreateInnerThreadCutter: height = (blen // P) + 2
InnerCutterHelix(dia, P, blen, Tuner, leftHanded) ==
    Helix(P, FloatAdd(FloorDiv(blen, P), Float(2)), TunedRadius(dia, Tuner), leftHanded)

\* The engines that build helices, and the helices a call of one builds when
\* every sweep is ready.  The wood-screw thread is called with the tip at
\* -blen, the end of the body at -blen / 2 and the start of the thread at 0.
HelixEngines ==
    {"CreateThreadCutter", "CreateInnerThreadCutter", "makeInnerThread_2", "makeDin7998Thread"}

HelicesOf(engine, dia, P, blen, Tuner, leftHanded) ==
    IF engine = "CreateThreadCutter"
    THEN CreateThreadCutter(dia, P, blen, leftHanded, TRUE).helices
    ELSE IF engine = "CreateInnerThreadCutter"
    THEN <<InnerCutterHelix(dia, P, blen, Tuner, leftHanded)>>
    ELSE IF engine = "makeInnerThread_2"
    THEN <<InnerThreadHelix(dia, P, Tuner, leftHanded)>>
    ELSE makeDin7998Thread(Float(0), FloatDiv(blen, Float(-2)), FloatNeg(blen),
                           FloatDiv(dia, Float(4)), FloatDiv(dia, Float(2)), P,
                           leftHanded, TRUE, TRUE).helices

\* A call of an engine on the instance as it is: the helices it built.
BuildHelices(engine, dia, P, blen) ==
    threadCall' = [op |-> engine, dia |-> dia, P |-> P, blen |-> blen,
                   Tuner |-> self.Tuner, leftHanded |-> self.leftHanded, done |-> TRUE,
                   result |-> [helices |-> HelicesOf(engine, dia, P, blen, self.Tuner,
                                                     self.leftHanded)]]

\* The values the tuning factor is set to.
TunerValues == {510, 511, 520}


(***************************************************************************)
(* The outline of the hexalobular recess (makeIso10664_3, lines 852-897):  *)
(* points in the plane z = offSet, arcs through three points, and the      *)
(* rotation matrix mhex of the kernel.                                     *)
(***************************************************************************)
\* math.cos(math.radians(60.0)) = 0x1.0000000000001p-1 and
\* math.sin(math.radians(60.0)) = 0x1.bb67ae8584caap-1
Cos60 == Binary64(1, BigAdd(BigShl(<<1>>, 52), <<1>>), -53)
Sin60 == [Sqrt3 EXCEPT !.ex = -53]

\* mhex.multiply(p) for mhex = rotateZ(radians(60)), a function of the
\* kernel: the x and y of the matrix product in binary64,
\* (c * x + (-s) * y + 0 * z + 0,  s * x + c * y + 0 * z + 0).
mhex_multiply(p) ==
    <<FloatAdd(FloatMul(Cos60, p[1]), FloatMul(FloatNeg(Sin60), p[2])),
      FloatAdd(FloatMul(Sin60, p[1]), FloatMul(Cos60, p[2]))>>

\* Part.Arc(p1, p2, p3), made by the statement that assigns edge0 (a lobe) or
\* edge1 (an inner arc).
Arc(edge, p1, p2, p3) == [edge |-> edge, from |-> p1, via |-> p2, to |-> p3]

\* for i in range(5)
LoopTurns == 5

RECURSIVE hexlobLoop(_, _, _, _, _, _, _)
\* The second half of a turn of the loop, with the rotated points: edge0 goes
\* from the PntRi2 of the turn before, edge1 to the rotated PntRi2 (the test
\* i == 5 chooses PntRe0 as its end).
hexlobTurn(i, PntRe0, PntRe1, PntRe2, PntRi, PntRi2_before, PntRi2, wire) ==
    hexlobLoop(i + 1, PntRe0, PntRe1, PntRe2, PntRi, PntRi2,
               wire \o <<Arc("edge0", PntRi2_before, PntRe1, PntRe2),
                         Arc("edge1", PntRe2, PntRi, IF i = 5 THEN PntRe0 ELSE PntRi2)>>)

\* A loop that lacks PntRi2 = mhex.multiply(PntRi2): every inner arc ends at
\* the first PntRi2.
hexlobLoop_keepsRi2(i, PntRe0, PntRe1, PntRe2, PntRi, PntRi2, wire) ==
    IF i = LoopTurns THEN wire
    ELSE The({hexlobTurn(i, PntRe0, v[1], v[2], v[3], PntRi2, PntRi2, wire) :
                 v \in {<<mhex_multiply(PntRe1), mhex_multiply(PntRe2),
                          mhex_multiply(PntRi)>>}})

hexlobLoop(i, PntRe0, PntRe1, PntRe2, PntRi, PntRi2, wire) ==
    IF i = LoopTurns THEN wire
    ELSE The({hexlobTurn(i, PntRe0, v[1], v[2], v[3], PntRi2, v[4], wire) :
                 v \in {<<mhex_multiply(PntRe1), mhex_multiply(PntRe2),
                          mhex_multiply(PntRi), mhex_multiply(PntRi2)>>}})

\* hexlobWireList after the loop, from the five coordinates of the outline.
hexlobFirst(PntRe0, PntRe1, PntRe2, PntRi, PntRi2) ==
    hexlobLoop(0, PntRe0, PntRe1, PntRe2, PntRi, PntRi2,
               <<Arc("edge0", PntRe0, PntRe1, PntRe2), Arc("edge1", PntRe2, PntRi, PntRi2)>>)

hexlobWireList(Re_x, Re_y, A_half, Ri_x, Ri_y) ==
    hexlobFirst(<<Re_x, FloatNeg(Re_y)>>, <<A_half, FloatZero>>, <<Re_x, Re_y>>,
                <<Ri_x, Ri_y>>, mhex_multiply(<<Re_x, FloatNeg(Re_y)>>))

\* A binary64 number by the high 25 and the low 28 bits of its significand.
Bits53(hi, lo, ex) == Binary64(1, BigAdd(BigShl(BigOfInt(hi), 28), BigOfInt(lo)), ex)

\* math.sin(beta) and math.cos(beta) of lines 857-858 for each row of the
\* table, with Ri and beta computed from the row as lines 852 and 854 do.
SinBeta ==
    "T6"   :> Bits53(21737377, 136076080, -55) @@
    "T8"   :> Bits53(24231929, 29496101, -55) @@
    "T10"  :> Bits53(29283511, 164779201, -55) @@
    "T15"  :> Bits53(27102240, 177479804, -55) @@
    "T20"  :> Bits53(25304560, 264578475, -55) @@
    "T25"  :> Bits53(26318538, 215417012, -55) @@
    "T30"  :> Bits53(29672048, 107083858, -55) @@
    "T40"  :> Bits53(29276785, 34270412, -55) @@
    "T45"  :> Bits53(26386073, 261273239, -55) @@
    "T50"  :> Bits53(30591639, 165811694, -55) @@
    "T55"  :> Bits53(30957284, 134325482, -55) @@
    "T60"  :> Bits53(30352569, 41737306, -55) @@
    "T70"  :> Bits53(31959949, 82615678, -55) @@
    "T80"  :> Bits53(31745056, 257514263, -55) @@
    "T90"  :> Bits53(31108884, 151249709, -55) @@
    "T100" :> Bits53(31707496, 228449887, -55)

CosBeta ==
    "T6"   :> Bits53(33111445, 73164700, -53) @@
    "T8"   :> Bits53(33003041, 172111451, -53) @@
    "T10"  :> Bits53(32746063, 47402991, -53) @@
    "T15"  :> Bits53(32863227, 9947381, -53) @@
    "T20"  :> Bits53(32952691, 50032939, -53) @@
    "T25"  :> Bits53(32903013, 202208906, -53) @@
    "T30"  :> Bits53(32724195, 266321031, -53) @@
    "T40"  :> Bits53(32746439, 22332480, -53) @@
    "T45"  :> Bits53(32899632, 264662202, -53) @@
    "T50"  :> Bits53(32671231, 188485503, -53) @@
    "T55"  :> Bits53(32649698, 147472302, -53) @@
    "T60"  :> Bits53(32685164, 237100685, -53) @@
    "T70"  :> Bits53(32589262, 47993659, -53) @@
    "T80"  :> Bits53(32602386, 180584729, -53) @@
    "T90"  :> Bits53(32640691, 120116023, -53) @@
    "T100" :> Bits53(32604671, 4278936, -53)

\* A, B, Re = FsData["iso10664def"][RType], as floats
TableFloat(RType, col) == PyFloat(Iso10664Def[RType][col], 1000)

\* The outline from a row of the table (lines 857-860 and 866-890):
\* Re_x = A / 2.0 - Re + Re * math.sin(beta), Re_y = Re * math.cos(beta),
\* Ri_y = B / 4.0, Ri_x = sqrt_3 * B / 4.0, and PntRe1 = (A / 2.0, 0.0).
hexlobOutline(A, B, Re, sinBeta, cosBeta) ==
    The({hexlobWireList(v[1], v[2], v[3], v[4], v[5]) :
            v \in {<<FloatAdd(FloatSub(FloatDiv(A, Float(2)), Re), FloatMul(Re, sinBeta)),
                     FloatMul(Re, cosBeta),
                     FloatDiv(A, Float(2)),
                     FloatDiv(FloatMul(Sqrt3, B), Float(4)),
                     FloatDiv(B, Float(4))>>}})

\* face.extrude(Base.Vector(0.0, 0.0, -t_hl - depth - offSet)), depth = A / 4.0
\* and offSet = 1.0: the z of the extrusion.
hexlobExtrude(A, t_hl) ==
    FloatSub(FloatSub(FloatNeg(t_hl), FloatDiv(A, Float(4))), Float(1))

\* The depths t_hl of the recess the factory is called with.
RecessDepths == {1, 2, 3, 4}

\* The calls of makeIso10664_3 whose outline is looked at: a size code (T0 is
\* not in the table) and a depth.
OutlineArgs ==
    {[RType |-> c, t_hl |-> t, done |-> FALSE, wire |-> <<>>, extrude |-> FloatZero] :
        c \in Iso10664Codes \cup {"T0"}, t \in RecessDepths}

NoOutline == [RType |-> "", t_hl |-> 0, done |-> FALSE, wire |-> <<>>,
              extrude |-> FloatZero]

\* The keys of these calls, made with the default h_hl = 0.
OutlineKeys == {FSKey("HexalobularTool", <<a.RType, a.t_hl, 0>>) : a \in OutlineArgs}

\* The outline of each size code of the table.
hexlobWires ==
    [c \in Iso10664Codes |->
        hexlobOutline(TableFloat(c, 1), TableFloat(c, 2), TableFloat(c, 3),
                      SinBeta[c], CosBeta[c])]

\* What the miss path builds between the table lookup and the extrusion
\* (lines 823-897): the 12 arcs of the outline and the z of the extrusion.
hexlobBuilt(RType, t_hl) ==
    [RType |-> RType, t_hl |-> t_hl, done |-> TRUE, wire |-> hexlobWires[RType],
     extrude |-> hexlobExtrude(TableFloat(RType, 1), Float(t_hl))]

\* makeIso10664_3: a hit returns the cached pair and builds nothing; a miss
\* reads the table (KeyError for a code it lacks), builds the outline, the
\* prism and the shell, stores the pair and returns it.
makeIso10664_3(RType, t_hl, h_hl) ==
    /\ ncalls < MaxCalls
    /\ ncalls' = ncalls + 1
    /\ LET kr == FSGetKey("HexalobularTool", <<RType, t_hl, h_hl>>)
           key == kr[1]
           res == kr[2]
       IN  IF res # None
           THEN LET objs == IsoHitPlacement(Deref(res), h_hl)
                IN  /\ heap' = [heap EXCEPT ![res[1]][res[2]] = objs]
                    /\ ret' = Returned("makeIso10664_3", key, TRUE, res, objs)
                    /\ UNCHANGED <<FSCache, hexlobCall>>
           ELSE IF RType \notin Iso10664Codes
                THEN /\ ret' = Raised("makeIso10664_3", key, "KeyError")
                     /\ UNCHANGED <<FSCache, heap, hexlobCall>>
                ELSE /\ BuildStoreReturn("makeIso10664_3", key, IsoBuild(RType, t_hl, h_hl))
                     /\ hexlobCall' = hexlobBuilt(RType, t_hl)

\* The call of makeIso10664_3 for the size code and depth asked for.
CallHexlobOutline == makeIso10664_3(hexlobCall.RType, hexlobCall.t_hl, 0)
(***************************************************************************)
(* Specifications.  Each one drives one part of the program and leaves the *)
(* variables of the other parts at their initial values.                   *)
(***************************************************************************)
CacheInitOver(keys) ==
    /\ FSCache = <<>>
    /\ heap = [k \in keys |-> <<>>]
    /\ ret = [op |-> "none", key |-> <<>>, outcome |-> "none", hit |-> FALSE,
              ref |-> None, zs |-> <<>>]
    /\ ncalls = 0
    /\ callers = [c \in Callers |-> IdleCaller]

CacheInit == CacheInitOver(AllKeys)

LenIdle ==
    /\ LenStr = PyNone
    /\ LenTerms = <<>>
    /\ LenResult = Pending

NoDiaCall ==
    [ThreadDiam |-> PyNone, isNut |-> FALSE, called |-> FALSE, cfg |-> PrintDefaults,
     result |-> Pending]

\* The instance after __init__, with no call made on it.
DiaInit ==
    /\ printCfg = PrintDefaults
    /\ diaCall = NoDiaCall

ScrewInit ==
    /\ self = NewScrew
    /\ attached = {}
    /\ screwCall = NoScrewCall

NoRequest ==
    [calc_len |-> PyNone, diameter |-> "Custom", type |-> "ISO4017", leftHanded |-> FALSE,
     dimTable |-> <<"unset">>]

\* The cached factories, called one after the other by one thread.
CallAllen ==
    /\ \E a \in AllenArgs : makeAllen2(a[1], a[2], a[3], a[4])
    /\ UNCHANGED <<hexlobCall, callers, lenVars, diaVars, threadCall, nutCall, screwVars>>
CallCross ==
    /\ \E a \in CrossArgs : makeCross_H3(a[1], a[2], a[3])
    /\ UNCHANGED <<hexlobCall, callers, lenVars, diaVars, threadCall, nutCall, screwVars>>
CallIso ==
    /\ \E a \in IsoArgs : makeIso10664_3(a[1], a[2], a[3])
    /\ UNCHANGED <<callers, lenVars, diaVars, threadCall, nutCall, screwVars>>
CallChamfer ==
    /\ \E a \in ChamferArgs : cutChamfer(a[1], a[2], a[3])
    /\ UNCHANGED <<hexlobCall, callers, lenVars, diaVars, threadCall, nutCall, screwVars>>
CallerMoves ==
    /\ \E k \in AllKeys : \E g \in DOMAIN heap[k] : \E i \in DOMAIN heap[k][g] :
          \E z \in MovedHeights : MovePlacement(k, g, i, z)
    /\ UNCHANGED <<hexlobCall, callers, lenVars, diaVars, threadCall, nutCall, screwVars>>

CacheNext == CallAllen \/ CallCross \/ CallIso \/ CallChamfer \/ CallerMoves

CacheSpecInit ==
    /\ hexlobCall = NoOutline
    /\ CacheInit /\ LenIdle /\ DiaInit /\ ScrewInit
    /\ threadCall = NoThreadCall /\ nutCall = NoNutCall /\ fastenerAttribs = NoRequest

SpecCache == CacheSpecInit /\ [][CacheNext]_vars

\* Two callers in the factories at once, step by step.
Lookup ==
    /\ \E c \in Callers, op \in RaceOps : \E args \in RaceArgs(op) : RaceLookup(c, op, args)
    /\ UNCHANGED <<hexlobCall, lenVars, diaVars, threadCall, nutCall, screwVars>>
Build ==
    /\ \E c \in Callers : RaceBuild(c)
    /\ UNCHANGED <<hexlobCall, lenVars, diaVars, threadCall, nutCall, screwVars>>
Store ==
    /\ \E c \in Callers : RaceStore(c)
    /\ UNCHANGED <<hexlobCall, lenVars, diaVars, threadCall, nutCall, screwVars>>

RaceNext == Lookup \/ Build \/ Store

RaceSpecInit ==
    /\ hexlobCall = NoOutline
    /\ CacheInit /\ LenIdle /\ DiaInit /\ ScrewInit
    /\ threadCall = NoThreadCall /\ nutCall = NoNutCall /\ fastenerAttribs = NoRequest

SpecRace == RaceSpecInit /\ [][RaceNext]_vars

\* getLength as a function of its argument.
LenInit ==
    /\ \/ LenTerms = <<>> /\ LenStr \in LenArgs
       \/ \E ts \in TermSeqs : LenTerms = ts /\ LenStr = PyStr(WriteInch(ts))
    /\ LenResult = Pending

LenNext ==
    /\ GetLengthCall
    /\ UNCHANGED <<hexlobCall, cacheVars, diaVars, threadCall, nutCall, screwVars>>

LenSpecInit ==
    /\ hexlobCall = NoOutline
    /\ CacheInit /\ LenInit /\ DiaInit /\ ScrewInit
    /\ threadCall = NoThreadCall /\ nutCall = NoNutCall /\ fastenerAttribs = NoRequest

SpecLen == LenSpecInit /\ [][LenNext]_vars

\* getDia on an instance whose print attributes are set between the calls.
SetPrintAttributes ==
    /\ \E mode \in BOOLEAN, nutA, screwA \in ScaleATenths, nutB, screwB \in ScaleBTenths :
          Configure3DPrint(mode, nutA, nutB, screwA, screwB)
    /\ UNCHANGED <<hexlobCall, cacheVars, lenVars, threadCall, nutCall, screwVars>>
ResolveDiameter ==
    /\ \E ThreadDiam \in DiaArgs, isNut \in BOOLEAN : CallGetDia(ThreadDiam, isNut)
    /\ UNCHANGED <<hexlobCall, cacheVars, lenVars, threadCall, nutCall, screwVars>>

DiaNext == SetPrintAttributes \/ ResolveDiameter

DiaSpecInit ==
    /\ hexlobCall = NoOutline
    /\ CacheInit /\ LenIdle /\ DiaInit /\ ScrewInit
    /\ threadCall = NoThreadCall /\ nutCall = NoNutCall /\ fastenerAttribs = NoRequest

SpecDia == DiaSpecInit /\ [][DiaNext]_vars

\* The thread cutter engine as a function of its arguments.
CutThread ==
    /\ CallCreateThreadCutter
    /\ UNCHANGED <<hexlobCall, cacheVars, lenVars, diaVars, nutCall, screwVars>>
ShellThread ==
    /\ CallMakeShellthread
    /\ UNCHANGED <<hexlobCall, cacheVars, lenVars, diaVars, nutCall, screwVars>>

CutterNext == CutThread \/ ShellThread

CutterSpecInit ==
    /\ hexlobCall = NoOutline
    /\ CacheInit /\ LenIdle /\ DiaInit /\ ScrewInit
    /\ nutCall = NoNutCall /\ fastenerAttribs = NoRequest
    /\ \E P \in Pitches, blen \in BodyLengths, leftHanded, ready \in BOOLEAN :
          \/ threadCall = ThreadArgs("CreateThreadCutter", Float(5), P, blen, FALSE, blen,
                                     leftHanded, ready)
          \/ \E tlen \in ThreadLengths, withcham \in BOOLEAN :
                threadCall = ThreadArgs("makeShellthread", Float(5), P, blen, withcham, tlen,
                                        leftHanded, ready)

SpecCutter == CutterSpecInit /\ [][CutterNext]_vars

\* The engines called on an instance whose tuning factor is set in between.
SetTuner ==
    /\ \E v \in TunerValues : setTuner(v)
    /\ UNCHANGED <<hexlobCall, cacheVars, lenVars, diaVars, threadCall, nutCall, attached,
                   fastenerAttribs, screwCall>>
CallEngine ==
    /\ \E engine \in HelixEngines, dia \in {Float(5), Float(6)},
          P \in {PyFloat(8, 10), Float(1)}, blen \in {Float(4), Float(8)} :
          /\ BuildHelices(engine, dia, P, blen)
          /\ threadCall' # threadCall
    /\ UNCHANGED <<hexlobCall, cacheVars, lenVars, diaVars, nutCall, screwVars>>

TunerNext == SetTuner \/ CallEngine

TunerSpecInit ==
    /\ hexlobCall = NoOutline
    /\ CacheInit /\ LenIdle /\ DiaInit /\ ScrewInit
    /\ threadCall = NoThreadCall /\ nutCall = NoNutCall /\ fastenerAttribs = NoRequest

SpecTuner == TunerSpecInit /\ [][TunerNext]_vars

\* makeInnerThread_2 as a function of its arguments and the kernel's answers.
NutNext ==
    /\ CallInnerThread
    /\ UNCHANGED <<hexlobCall, cacheVars, lenVars, diaVars, threadCall, screwVars>>

NutSpecInit ==
    /\ hexlobCall = NoOutline
    /\ CacheInit /\ LenIdle /\ DiaInit /\ ScrewInit
    /\ threadCall = NoThreadCall /\ fastenerAttribs = NoRequest
    /\ \E rotations \in 2..MaxRotations, da \in {PyNone, Float(8)}, l \in {Float(4), Float(8)},
          nStripFaces \in 4..5, nBottomMap, nTopMap \in 0..2, nTopPartFaces \in 8..11 :
          nutCall = NutArgs(Float(5), PyFloat(8, 10), rotations, da, l, nStripFaces,
                            nBottomMap, nTopPartFaces, nTopMap)

SpecNut == NutSpecInit /\ [][NutNext]_vars

\* makeIso10664_3 called again and again for one size code and depth: the
\* first call builds the outline, the later ones hit the cache.
OutlineNext ==
    /\ CallHexlobOutline
    /\ UNCHANGED <<callers, lenVars, diaVars, threadCall, nutCall, screwVars>>

OutlineSpecInit ==
    /\ CacheInitOver(AllKeys \cup OutlineKeys) /\ LenIdle /\ DiaInit /\ ScrewInit
    /\ threadCall = NoThreadCall /\ nutCall = NoNutCall /\ fastenerAttribs = NoRequest
    /\ hexlobCall \in OutlineArgs

SpecOutline == OutlineSpecInit /\ [][OutlineNext]_vars

\* createScrew: a first request with any of the enumerated lengths, then calls
\* on it and further requests.
CallCreateScrew ==
    /\ \E function \in Functions : \E ready \in ReadyAnswers(function) :
          createScrew(function, ready)
    /\ UNCHANGED <<hexlobCall, cacheVars, lenVars, diaVars, threadCall, nutCall>>
CallerNewRequest ==
    /\ \E len \in LaterLengths, diameter \in Diameters, leftHanded \in BOOLEAN :
          NewRequest(len, diameter, leftHanded)
    /\ UNCHANGED <<hexlobCall, cacheVars, lenVars, diaVars, threadCall, nutCall>>

CallerNewInstance ==
    /\ NewInstance
    /\ UNCHANGED <<hexlobCall, cacheVars, lenVars, diaCall, threadCall, nutCall>>

ScrewNext == CallCreateScrew \/ CallerNewRequest \/ CallerNewInstance

ScrewSpecInit ==
    /\ hexlobCall = NoOutline
    /\ CacheInit /\ LenIdle /\ DiaInit /\ ScrewInit
    /\ threadCall = NoThreadCall /\ nutCall = NoNutCall
    /\ \E len \in RequestLengths, diameter \in Diameters, leftHanded \in BOOLEAN :
          fastenerAttribs = [calc_len |-> len, diameter |-> diameter, type |-> "ISO4017",
                             leftHanded |-> leftHanded, dimTable |-> <<"unset">>]

SpecScrew == ScrewSpecInit /\ [][ScrewNext]_vars

(***************************************************************************)
(* Claims about the cache and the recess factories.                        *)
(***************************************************************************)
RecessOps == {"makeAllen2", "makeCross_H3", "makeIso10664_3"}
RecessKeys == {k \in AllKeys : k[1] \in {"Allen2Tool", "CrossRecess", "HexalobularTool"}}

\* C1: in a single-threaded sequence of factory calls the construction for a
\* key runs at most once; the object stored under a key is the one that first
\* build made, and every call that returns, hit or miss, returns that object.
C1_BuildAtMostOnce ==
    /\ \A k \in AllKeys : Len(heap[k]) <= 1
    /\ \A k \in DOMAIN FSCache : FSCache[k] = <<k, 1>> /\ Len(heap[k]) = 1
    /\ ret.outcome = "returned" =>
          /\ ret.ref = <<ret.key, 1>>
          /\ ret.key \in DOMAIN FSCache /\ FSCache[ret.key] = ret.ref

\* C1 witness: a second call with the same parameters was answered from the
\* cache, after three calls, with exactly one build recorded for its key.
C1_Witness ==
    /\ ret.hit /\ ret.op = "makeIso10664_3"
    /\ Len(heap[ret.key]) = 1
    /\ ncalls = 3

\* C2: a hit of a recess factory returns the pair with the placement of the
\* solid and of the shell at the requested height (the third parameter).
C2_HitAtRequestedHeight ==
    (ret.hit /\ ret.op \in RecessOps) =>
        \A i \in DOMAIN ret.zs : ret.zs[i] = ret.key[4]

\* C3, as claimed: the solid of every cached recess pair is the prism after
\* the cut, and the shell comes from that same cut result.
C3_SolidIsCutResult ==
    \A k \in DOMAIN FSCache \cap RecessKeys :
        LET pair == Deref(FSCache[k])
        IN  pair[1].cut /\ pair[2].cut

\* C3, amended: the shell of every cached recess pair is built from faces of
\* the cut result; the solid is the uncut prism in the Allen (solidHex) and
\* hexalobular (Helo) factories, and only the cross factory's solid is built
\* from the faces of its cut results.
C3_SolidAndShellProvenance ==
    \A k \in DOMAIN FSCache \cap RecessKeys :
        LET pair == Deref(FSCache[k])
        IN  /\ pair[2].cut
            /\ k[1] = "Allen2Tool" =>
                  pair[1] = Shape("solidHex", FALSE, pair[1].z) /\ pair[2].of = "allen"
            /\ k[1] = "HexalobularTool" =>
                  pair[1] = Shape("Helo", FALSE, pair[1].z) /\ pair[2].of = "hexlob"
            /\ k[1] = "CrossRecess" =>
                  pair[1].cut /\ pair[1].of = "cross" /\ pair[2].of = "crossShell0"

\* C3 witness: all three recess factories have built and cached a pair.
C3_Witness ==
    \A n \in {"Allen2Tool", "CrossRecess", "HexalobularTool"} :
        \E k \in DOMAIN FSCache : k[1] = n

(***************************************************************************)
(* Claims about the nut case of makeInnerThread_2.                         *)
(***************************************************************************)
\* How often x occurs in seq.
Count(seq, x) == Cardinality({i \in DOMAIN seq : seq[i] = x})

\* One of the three checks of the nut case fails on the kernel's answers: the
\* shell that the top chamfer cuts is two turns of the strip.
NutCheckFails(c) ==
    c.nBottomMap < 2 \/ c.nTopPartFaces > 2 * c.nStripFaces \/ c.nTopMap < 2

\* C4: with da given, makeInnerThread_2 returns None whenever the bottom
\* general fuse maps fewer than two shapes, the top chamfer cut has more faces
\* than the shell it cut, or the top general fuse maps fewer than two shapes;
\* it returns a shell only when all three checks passed, and that shell is
\* the whole stitching: from the bottom fuse face, through the cut top
\* turns, to the top fuse face.
C4_NutReturnsNoneOnFailedCheck ==
    (nutCall.called /\ nutCall.da.t # "None") =>
        /\ nutCall.result.value \in {"None", "Shell"}
        /\ NutCheckFails(nutCall) => nutCall.result.value = "None"
        /\ nutCall.result.value = "Shell" =>
              /\ ~NutCheckFails(nutCall)
              /\ Head(nutCall.result.faces) = Face("bottomMap", 0)
              /\ nutCall.result.faces[Len(nutCall.result.faces)] = Face("topMap", 0)
              /\ \E i \in DOMAIN nutCall.result.faces :
                    nutCall.result.faces[i] = Face("topPart", nutCall.rotations)
              /\ nutCall.result.ops[Len(nutCall.result.ops)] = "Shell"

\* C4 witness: both general fuses mapped two shapes, the top chamfer cut gave
\* more faces than the shell it cut, and the call returned None.
C4_Witness ==
    /\ nutCall.called /\ nutCall.da.t # "None"
    /\ nutCall.nBottomMap = 2 /\ nutCall.nTopMap = 2
    /\ nutCall.nTopPartFaces > 2 * nutCall.nStripFaces
    /\ nutCall.result.value = "None"


\* The shapes whose faces are faces of copies of the single-turn strip, and
\* the offsets, in pitches, of the strip faces of a result.
StripSources == {"topShell", "TheShell", "BotShell", "bottomPart", "topPart"}
StripAt(faces) == {i \in DOMAIN faces : faces[i].src \in StripSources}
StripOffsets(faces) == {faces[i].k : i \in StripAt(faces)}

\* C18: in a result of makeInnerThread_2, tap or nut, the strip copies sit at
\* consecutive multiples of the pitch, one copy at each, and the lowest and
\* the highest are rotations pitches apart.
C18_StripCopiesConsecutive ==
    (nutCall.called /\ nutCall.result.value \in {"Solid", "Shell"}) =>
        \E lo \in -MaxRotations..0 :
            /\ StripOffsets(nutCall.result.faces) = lo..(lo + nutCall.rotations)
            /\ \A i, j \in StripAt(nutCall.result.faces) :
                  nutCall.result.faces[i].k = nutCall.result.faces[j].k => i = j

\* C19: in the nut case the faces of a chamfer step (bottom cut, bottom
\* general fuse, top cut, top general fuse) are appended to the face list
\* only after a check of the result of that step.
ChamferSteps == {"bottomPart", "bottomMap", "topPart", "topMap"}
Before(ops, a, b) == \E i, j \in DOMAIN ops : i < j /\ ops[i] = a /\ ops[j] = b
AppendOp(step) ==
    IF step = "bottomPart" THEN "append:bottomPart"
    ELSE IF step = "bottomMap" THEN "append:bottomMap"
    ELSE IF step = "topPart" THEN "append:topPart" ELSE "append:topMap"
CheckOp(step) ==
    IF step = "bottomPart" THEN "check:bottomPart"
    ELSE IF step = "bottomMap" THEN "check:bottomMap"
    ELSE IF step = "topPart" THEN "check:topPart" ELSE "check:topMap"
C19_EveryChamferStepValidated ==
    (nutCall.called /\ nutCall.da.t # "None") =>
        /\ \A step \in ChamferSteps :
              Count(nutCall.result.ops, AppendOp(step)) > 0 =>
                  Before(nutCall.result.ops, CheckOp(step), AppendOp(step))
        /\ NutCheckFails(nutCall) => nutCall.result.value = "None"
(***************************************************************************)
(* Claims about createScrew.                                               *)
(***************************************************************************)
Sweeps == {"sweep:thread", "sweep:tip", "sweep:body"}

\* The call ran a builder that attempted a sweep the kernel did not make ready.
SweepNotReady(c) ==
    \/ c.function = "makeHexHeadBolt" /\ ~c.ready[1] /\ Count(c.ops, "sweep:thread") > 0
    \/ c.function = "makeWoodScrew" /\ ~c.ready[2] /\ Count(c.ops, "sweep:tip") > 0
    \/ c.function = "makeWoodScrew" /\ ~c.ready[3] /\ Count(c.ops, "sweep:body") > 0

\* C5: when a sweep of CreateThreadCutter or of makeDin7998Thread is not
\* ready, createScrew ends by raising the RuntimeError and gives no shape;
\* every sweep was attempted at most once, the failed sweep is the last
\* kernel operation of the call (nothing is retried, built, cut or fused
\* after it), and no helix was made beyond those of the single attempt.
C5_SweepFailureIsFatal ==
    (screwCall.called /\ SweepNotReady(screwCall)) =>
        /\ screwCall.outcome = "raised" /\ screwCall.err = "RuntimeError"
        /\ screwCall.value = "none"
        /\ \A s \in Sweeps : Count(screwCall.ops, s) <= 1
        /\ screwCall.ops[Len(screwCall.ops)] \in Sweeps
        /\ Count(screwCall.ops, "cut") = 0 /\ Count(screwCall.ops, "fuse") = 0
        /\ Count(screwCall.ops, "makeLongHelix") = Len(screwCall.helices)
        /\ Len(screwCall.helices) <= 2

\* C5 witness: a hexagon head bolt was requested with a length string, the
\* thread sweep was not ready, and the call raised.
C5_Witness ==
    /\ screwCall.called /\ screwCall.function = "makeHexHeadBolt"
    /\ screwCall.pre.attribs.calc_len.t = "str"
    /\ ~screwCall.ready[1]
    /\ Count(screwCall.ops, "sweep:thread") = 1
    /\ screwCall.outcome = "raised"

\* A term that writes a number (digits with at most one "."), and one that
\* writes zero.
NumericTerm(cs) ==
    /\ \A i \in DOMAIN cs : cs[i] \in Digits \cup {"."}
    /\ Count(cs, ".") <= 1
    /\ \E i \in DOMAIN cs : cs[i] \in Digits
ZeroTerm(cs) == NumericTerm(cs) /\ \A i \in DOMAIN cs : cs[i] \in {"0", "."}

\* A fraction with a non-numeric numerator, or a non-numeric or zero denominator.
MalformedFraction(parts) ==
    ~NumericTerm(parts[1]) \/ ~NumericTerm(parts[2]) \/ ZeroTerm(parts[2])
MalformedTerm(t) ==
    IF Count(t, "/") > 0 THEN MalformedFraction(Split(t, "/")) ELSE ~NumericTerm(t)
MalformedInch(terms) == \E i \in DOMAIN terms : MalformedTerm(terms[i])

\* A malformed length string: an inch expression with a malformed term (an
\* empty term included), or a plain string that is not a number.
Malformed(cs) ==
    IF Contains2(cs, "i", "n") THEN MalformedInch(Split(Strip(cs, {"i", "n"}), " "))
    ELSE ~NumericTerm(Strip(cs, {" "}))

\* C6: createScrew on a request with a malformed length string returns None
\* without running a builder and leaves the instance's handedness and the
\* request (its dimension table and its length) as they were.
C6_MalformedLengthAborts ==
    (/\ screwCall.called
     /\ screwCall.pre.attribs.calc_len.t = "str"
     /\ Malformed(screwCall.pre.attribs.calc_len.s)) =>
        /\ screwCall.outcome = "returned" /\ screwCall.value = "None"
        /\ screwCall.builder = ""
        /\ self.leftHanded = screwCall.pre.leftHanded
        /\ fastenerAttribs = screwCall.pre.attribs

\* C8: createScrew on a request whose length is a number (as a first call
\* of createScrew leaves it) keeps the length and runs the builder.
C8_NumberLengthReachesBuilder ==
    (/\ screwCall.called
     /\ screwCall.function \in Builders
     /\ screwCall.pre.attribs.calc_len.t \in {"int", "float"}) =>
        /\ screwCall.builder = screwCall.function
        /\ fastenerAttribs.calc_len = screwCall.pre.attribs.calc_len


\* The length of the request did not parse: a malformed length string.
FailedParse(c) == c.pre.attribs.calc_len.t = "str" /\ Malformed(c.pre.attribs.calc_len.s)

\* C20: a builder is imported only when it is not attached yet, and is then
\* attached; a call with a name that is attached already, on any instance,
\* dispatches to the builder without importing, unless its length fails to
\* parse; and a call whose length fails to parse attaches nothing.
C20_BuilderAttachedOnce ==
    screwCall.called =>
        /\ screwCall.imported =>
              /\ screwCall.function \notin screwCall.pre.attached
              /\ screwCall.function \in attached
        /\ (screwCall.function \in screwCall.pre.attached /\ ~FailedParse(screwCall)) =>
              /\ screwCall.builder = screwCall.function
              /\ ~screwCall.imported
        /\ FailedParse(screwCall) => attached = screwCall.pre.attached
(***************************************************************************)
(* Claims about getLength, getDia and CreateThreadCutter.                  *)
(***************************************************************************)
BigAbsDiff(a, b) == IF BigCmp(a, b) >= 0 THEN BigSub(a, b) ELSE BigSub(b, a)
Million == BigOfInt(1000000)

\* Whether the float x >= 0 is within 1/10^6 of num/den, for num >= 0 and
\* den > 0: | m * 2^ex - num/den | <= 10^-6, over the denominator den * 2^-ex.
WithinMillionth(x, num, den) ==
    /\ x.t = "float" /\ x.sg >= 0 /\ x.ex <= 0
    /\ BigCmp(BigAbsDiff(BigMul(BigMul(x.m, BigOfInt(den)), Million),
                         BigShl(BigMul(BigOfInt(num), Million), -x.ex)),
              BigShl(BigOfInt(den), -x.ex)) <= 0

MaxPlain == 222
Example_10 == PyStr(<<"1", "0">>)
Example_HalfInch == PyStr(<<"1", "/", "2", "i", "n">>)
Example_OneAndHalfInch == PyStr(<<"1", " ", "1", "/", "2", "i", "n">>)

\* C7, as claimed: "10" gives 10.0, "1/2in" gives 12.7, "1 1/2in" gives 38.1,
\* and every inch expression written from terms gives the float of 25.4
\* times the exact sum of its terms.
C7_InchLengthExact ==
    LenResult # Pending =>
        /\ LenStr = Example_10 => LenResult = Ok(Float(10))
        /\ LenStr = Example_HalfInch => LenResult = Ok(PyFloat(127, 10))
        /\ LenStr = Example_OneAndHalfInch => LenResult = Ok(PyFloat(381, 10))
        /\ LenTerms # <<>> =>
              LenResult = Ok(PyFloat(254 * TermSum(LenTerms)[1], 10 * TermSum(LenTerms)[2]))

\* C7, amended: a plain string of digits gives its value as a float ("10"
\* gives 10.0), "1/2in" gives 12.7, and every inch expression written from
\* whole numbers and fractions gives a float within 10^-6 of 25.4 times the
\* exact sum of its terms ("1 1/2in" within 10^-6 of 38.1).
C7_InchLengthWithinTolerance ==
    LenResult # Pending =>
        /\ \A k \in 0..MaxPlain : LenStr = PyStr(WriteNat(k)) => LenResult = Ok(Float(k))
        /\ LenStr = Example_HalfInch => LenResult = Ok(PyFloat(127, 10))
        /\ LenStr = Example_OneAndHalfInch =>
              LenResult.ok /\ WithinMillionth(LenResult.val, 381, 10)
        /\ LenTerms # <<>> =>
              /\ LenResult.ok
              /\ WithinMillionth(LenResult.val, 254 * TermSum(LenTerms)[1],
                                 10 * TermSum(LenTerms)[2])

\* C7 witness: "1 1/2in" was resolved, to a float that is not 38.1.
C7_Witness ==
    /\ LenStr = Example_OneAndHalfInch
    /\ LenTerms = <<<<1, 0>>, <<1, 2>>>>
    /\ LenResult.ok /\ LenResult.val # PyFloat(381, 10)

\* The diameter getDia starts from: the table's for a label, else the argument.
UnscaledDia(ThreadDiam) ==
    IF ThreadDiam.t = "str" THEN DiaList(Strip(ThreadDiam.s, {"(", ")"})) ELSE ThreadDiam

WithScrewScale(cfg, a, b) ==
    [cfg EXCEPT !.smScrewThrScaleA = Tenths[a], !.smScrewThrScaleB = Tenths[b]]
WithNutScale(cfg, a, b) ==
    [cfg EXCEPT !.smNutThrScaleA = Tenths[a], !.smNutThrScaleB = Tenths[b]]

\* C9: with the print mode on, getDia for a screw gives smScrewThrScaleA * d
\* + smScrewThrScaleB and for a nut smNutThrScaleA * d + smNutThrScaleB (5.5
\* for a screw with 1.1, 0.0 and d = 5); the result of a nut is the same under
\* every value of the screw's coefficients and the result of a screw under
\* every value of the nut's; with the print mode off the diameter is unscaled.
C9_PrintScaling ==
    (diaCall.called /\ diaCall.result.ok) =>
        /\ ~diaCall.cfg.sm3DPrintMode => diaCall.result.val = UnscaledDia(diaCall.ThreadDiam)
        /\ (diaCall.cfg.sm3DPrintMode /\ ~diaCall.isNut) =>
              diaCall.result.val =
                  FloatAdd(FloatMul(diaCall.cfg.smScrewThrScaleA,
                                    ToFloat(UnscaledDia(diaCall.ThreadDiam))),
                           diaCall.cfg.smScrewThrScaleB)
        /\ (diaCall.cfg.sm3DPrintMode /\ diaCall.isNut) =>
              diaCall.result.val =
                  FloatAdd(FloatMul(diaCall.cfg.smNutThrScaleA,
                                    ToFloat(UnscaledDia(diaCall.ThreadDiam))),
                           diaCall.cfg.smNutThrScaleB)
        /\ (/\ diaCall.cfg.sm3DPrintMode /\ ~diaCall.isNut
            /\ diaCall.cfg.smScrewThrScaleA = Tenths[11]
            /\ diaCall.cfg.smScrewThrScaleB = Tenths[0]
            /\ diaCall.ThreadDiam \in {PyInt(5), PyStr(<<"M", "5">>)}) =>
              diaCall.result.val = PyFloat(55, 10)
        /\ \A a \in ScaleATenths, b \in ScaleBTenths :
              IF diaCall.isNut
              THEN getDia(WithScrewScale(diaCall.cfg, a, b), diaCall.ThreadDiam, TRUE)
                       = diaCall.result
              ELSE getDia(WithNutScale(diaCall.cfg, a, b), diaCall.ThreadDiam, FALSE)
                       = diaCall.result

\* C9 witness: the print mode was on, the nut's scale factor was not the
\* screw's, and the diameter 5 of a screw was resolved to 5.5; the print
\* mode was switched off after the call.
C9_Witness ==
    /\ diaCall.called /\ ~diaCall.isNut /\ diaCall.cfg.sm3DPrintMode
    /\ ~printCfg.sm3DPrintMode
    /\ diaCall.cfg.smScrewThrScaleA = Tenths[11]
    /\ diaCall.cfg.smNutThrScaleA = Tenths[9]
    /\ diaCall.cfg.smScrewThrScaleB = Tenths[0]
    /\ diaCall.ThreadDiam = PyInt(5)
    /\ diaCall.result.val = PyFloat(55, 10)

\* C10: for every pitch P = k/10 and body length blen = j/2 of the model,
\* CreateThreadCutter has floor(blen / P) + 1 turns and a main helix that is
\* higher than blen and not higher than blen + P.
C10_TurnsCoverBody ==
    (threadCall.done /\ threadCall.op = "CreateThreadCutter") =>
        /\ FloatLess(threadCall.blen, threadCall.result.helix_height)
        /\ ~FloatLess(FloatAdd(threadCall.blen, threadCall.P), threadCall.result.helix_height)
        /\ threadCall.result.helices[1].height = threadCall.result.helix_height
        /\ \A k \in 1..MaxPitchTenths, j \in 0..MaxBlenHalves :
              (threadCall.P = PyFloat(k, 10) /\ threadCall.blen = PyFloat(j, 2)) =>
                  threadCall.result.trotations = Float(((5 * j) \div k) + 1)

(***************************************************************************)
(* Claims about the helices: the tuning factor and the handedness.         *)
(***************************************************************************)
\* C11: the radius of every helix an engine builds is derived from the
\* Tuner of the instance at the time of the call: built under any other
\* value of the Tuner, the same helix has another radius.
C11_EveryHelixReflectsTuner ==
    (threadCall.done /\ threadCall.op \in HelixEngines) =>
        \A v \in TunerValues \ {threadCall.Tuner} :
            \A i \in DOMAIN threadCall.result.helices :
                HelicesOf(threadCall.op, threadCall.dia, threadCall.P, threadCall.blen, v,
                          threadCall.leftHanded)[i].radius
                    # threadCall.result.helices[i].radius


\* The helices of a build, but for the winding flag.
Unwound(helices) == [i \in DOMAIN helices |-> [helices[i] EXCEPT !.left = FALSE]]

\* The same build with the other handedness.
OtherHand(call) ==
    Builder(call.function, fastenerAttribs, ~call.pre.attribs.leftHanded, call.ready)

\* C12: a call that ran a builder has assigned the flag of the request to the
\* instance, every helix of the build has that flag, and the build with the
\* other handedness does the same operations on helices that differ in the
\* winding flag only.
C12_HandednessFromRequest ==
    (screwCall.called /\ screwCall.builder # "") =>
        /\ self.leftHanded = screwCall.pre.attribs.leftHanded
        /\ \A i \in DOMAIN screwCall.helices :
              screwCall.helices[i].left = screwCall.pre.attribs.leftHanded
        /\ \E other \in {OtherHand(screwCall)} :
              /\ other.ops = screwCall.ops
              /\ Unwound(other.helices) = Unwound(screwCall.helices)
              /\ \A i \in DOMAIN other.helices :
                    other.helices[i].left = ~screwCall.pre.attribs.leftHanded

\* A left-handed request built on an instance whose flag was still unset.
C12_Witness ==
    /\ screwCall.called /\ screwCall.builder # ""
    /\ Len(screwCall.helices) > 1
    /\ screwCall.pre.attribs.leftHanded /\ ~screwCall.pre.leftHanded
    /\ self.leftHanded

(***************************************************************************)
(* Claims about the cache under concurrent callers and over time.          *)
(***************************************************************************)
\* Two callers that both found the key absent and have both returned.
BothMissed(c, d) ==
    /\ c # d
    /\ callers[c].pc = "done" /\ callers[d].pc = "done"
    /\ callers[c].key = callers[d].key
    /\ ~callers[c].hit /\ ~callers[d].hit

\* C13: nothing guards check-then-build-then-store.  Two callers that both
\* missed the same key have both built, they hold different objects, and the
\* cache holds the object of one of them only; every store puts the storing
\* caller's own object under the key, whatever was there.
C13_RacingCallersBuildTwice ==
    /\ [](\A c, d \in Callers :
            BothMissed(c, d) =>
                /\ callers[c].out # callers[d].out
                /\ Len(heap[callers[c].key]) = 2
                /\ FSCache[callers[c].key] \in {callers[c].out, callers[d].out})
    /\ [][\A c \in Callers :
            (callers[c].pc = "store" /\ callers'[c].pc = "done") =>
                /\ FSCache'[callers[c].key] = callers[c].out
                /\ callers'[c].out = callers[c].out]_vars

\* Both callers missed the same key, the second store replaced the first, and
\* the first caller holds an object that is no longer the cached one.
C13_Witness ==
    /\ BothMissed(1, 2)
    /\ callers[1].out = <<callers[1].key, 1>>
    /\ FSCache[callers[1].key] = <<callers[1].key, 2>>
    /\ callers[2].out = <<callers[1].key, 2>>

\* The size codes a factory looks up in a dimension table on its miss path;
\* the other factories take all their dimensions as parameters.
InTable(key) ==
    /\ key[1] = "CrossRecess" => key[2] \in Iso4757Codes
    /\ key[1] = "HexalobularTool" => key[2] \in Iso10664Codes

\* No step removes an entry or puts another object under a stored key.
EntriesKept == \A k \in DOMAIN FSCache : k \in DOMAIN FSCache' /\ FSCache'[k] = FSCache[k]

\* The cache changes only in a call that missed, and only by the call's key.
StoreOnlyOnMiss ==
    FSCache' # FSCache =>
        /\ ncalls' = ncalls + 1
        /\ ~ret'.hit /\ ret'.key \notin DOMAIN FSCache
        /\ DOMAIN FSCache' = DOMAIN FSCache \cup {ret'.key}

\* The step is a factory call whose key is absent.
Missed == ncalls' = ncalls + 1 /\ ret'.key \notin DOMAIN FSCache

\* The call built a new object, stored it under its key and returned it.
BuiltStoredReturned ==
    /\ ret'.outcome = "returned" /\ ~ret'.hit
    /\ Len(heap'[ret'.key]) = Len(heap[ret'.key]) + 1
    /\ ret'.ref = <<ret'.key, Len(heap'[ret'.key])>>
    /\ FSCache'[ret'.key] = ret'.ref

\* The call raised the KeyError of the dimension table, having built and
\* stored nothing.
RaisedUnbuilt ==
    /\ ret'.outcome = "KeyError" /\ ret'.ref = None
    /\ heap' = heap /\ FSCache' = FSCache

\* C14, as claimed: in a sequence of factory calls by one caller the cache
\* only grows.  No step removes an entry or puts another object under a
\* stored key; the cache changes only in a call that missed; and a call
\* whose key is absent never raises: it builds a new object, stores it under
\* the key and returns it.
C14_MissNeverRaises ==
    [][/\ EntriesKept
       /\ StoreOnlyOnMiss
       /\ Missed => BuiltStoredReturned]_vars

\* C14, amended: the cache only grows and changes only in a call that
\* missed; a call whose key is absent builds a new object, stores it under
\* the key and returns it when the build path succeeds, and when the
\* dimension table lacks its size code it raises KeyError with nothing built
\* and the cache as it was.
C14_CacheOnlyGrows ==
    [][/\ EntriesKept
       /\ StoreOnlyOnMiss
       /\ Missed => IF InTable(ret'.key) THEN BuiltStoredReturned ELSE RaisedUnbuilt]_vars

\* Three calls, the first two having stored an entry each and the third
\* having missed, built and stored a third one.
C14_Witness ==
    /\ ncalls = 3
    /\ Cardinality(DOMAIN FSCache) = 3
    /\ ret.outcome = "returned" /\ ~ret.hit
    /\ FSCache[ret.key] = ret.ref
(***************************************************************************)
(* Claims about the outline of the hexalobular recess.                     *)
(***************************************************************************)
RECURSIVE Turned(_, _)
\* A point turned k times by mhex.
Turned(p, k) == IF k = 0 THEN p ELSE mhex_multiply(Turned(p, k - 1))

\* The tolerance within which the kernel takes two points for one
\* (1e-7, its confusion precision).
PointTolerance == PyFloat(1, 10000000)

NearNumber(x, y) ==
    FloatLess(FloatSub(x, y), PointTolerance) /\ FloatLess(FloatSub(y, x), PointTolerance)
NearPoint(p, q) == NearNumber(p[1], q[1]) /\ NearNumber(p[2], q[2])

Dot(p, q) == FloatAdd(FloatMul(p[1], q[1]), FloatMul(p[2], q[2]))
Cross(p, q) == FloatSub(FloatMul(p[1], q[2]), FloatMul(p[2], q[1]))

\* Twelve arcs, a lobe and an inner arc in turn: the odd arcs are made as
\* edge0, the even ones as edge1, and the middle point of an inner arc is
\* nearer to the axis than the middle point of the lobe before it.
TwelveAlternating(wire) ==
    /\ Len(wire) = 12
    /\ \A k \in 1..12 : wire[k].edge = (IF k % 2 = 1 THEN "edge0" ELSE "edge1")
    /\ \A k \in 1..6 : FloatLess(Dot(wire[2 * k].via, wire[2 * k].via),
                                 Dot(wire[2 * k - 1].via, wire[2 * k - 1].via))

\* The middle points of two lobes p and q, q 60 degrees after p on the circle
\* of squared radius rr: p.q = rr * cos 60 and p x q = rr * sin 60.
SixtyApart(p, q, rr) ==
    /\ NearNumber(Dot(q, q), rr)
    /\ NearNumber(Dot(p, q), FloatDiv(rr, Float(2)))
    /\ NearNumber(Cross(p, q), FloatDiv(FloatMul(rr, Sqrt3), Float(2)))

\* Six lobes, each 60 degrees after the one before, the first after the last.
SixLobes(wire) ==
    \A k \in 0..5 :
        SixtyApart(wire[2 * k + 1].via, wire[2 * ((k + 1) % 6) + 1].via,
                   Dot(wire[1].via, wire[1].via))

\* Each arc starts where the one before it ends.
Chained(wire) == \A k \in 1..(Len(wire) - 1) : wire[k + 1].from = wire[k].to

\* C15: for every size code the outline is a closed wire of exactly 12 arcs,
\* lobe and inner arc in turn, with 6 lobes 60 degrees apart; each arc starts
\* at the end point of the one before, and the last arc ends at the start
\* point of the first (the same point within the kernel's tolerance).
C15_OutlineIsClosed ==
    hexlobCall.done =>
        /\ TwelveAlternating(hexlobCall.wire)
        /\ SixLobes(hexlobCall.wire)
        /\ Chained(hexlobCall.wire)
        /\ NearPoint(hexlobCall.wire[12].to, hexlobCall.wire[1].from)

\* The outline of the default size code T20 has been built; its last arc ends
\* at the start point of the first arc turned six times by mhex.
C15_Witness ==
    /\ hexlobCall.done /\ hexlobCall.RType = "T20" /\ hexlobCall.t_hl = 3
    /\ Len(hexlobCall.wire) = 12
    /\ hexlobCall.wire[12].to = Turned(hexlobCall.wire[1].from, 6)

(***************************************************************************)
(* Claims about makeShellthread.                                           *)
(***************************************************************************)
\* The threaded length a call works with, and the two offsets it compares.
ThreadedLength(c) == IF c.tlen.sg < 0 THEN c.blen ELSE c.tlen
RawOffset(c) == FloatAdd(FloatSub(c.blen, ThreadedLength(c)), FloatDiv(c.P, Float(2)))
MinOffset(c) == FloatDiv(FloatMul(Float(5), c.P), Float(8))

\* A call of makeShellthread that came to translate the cutter.
ShellthreadDone(c) == c.done /\ c.op = "makeShellthread" /\ c.result.ok

\* C16: makeShellthread moves the cutter down by the greater of
\* blen - tlen + P / 2 and 5 * P / 8, with a negative tlen replaced by blen,
\* once the cutter is a solid and before it is cut from the body;
\* with tlen equal to blen, or left at its default, the offset is 5 * P / 8.
C16_OffsetIsFloored ==
    ShellthreadDone(threadCall) =>
        /\ threadCall.result.toffset =
               (IF FloatLess(RawOffset(threadCall), MinOffset(threadCall))
                THEN MinOffset(threadCall) ELSE RawOffset(threadCall))
        /\ \E i \in DOMAIN threadCall.result.ops :
              SubSeq(threadCall.result.ops, i, i + 3) = <<"makeSolid", "translate", "rotate", "cut">>
        /\ (threadCall.tlen.sg < 0 \/ threadCall.tlen = threadCall.blen) =>
               threadCall.result.toffset = MinOffset(threadCall)

\* A call with the default thread length on a body of 8 mm.
C16_Witness ==
    /\ ShellthreadDone(threadCall)
    /\ threadCall.tlen = Float(-1) /\ threadCall.blen = Float(8)
    /\ threadCall.P = PyFloat(8, 10)
    /\ threadCall.result.toffset = PyFloat(1, 2)

\* C17: for every pitch above 0, body length and thread length, the offset
\* is above 0 where the cap branch tests it: the cap is never built, and the
\* only revolved profile of the call is the base body.
C17_CapNeverBuilt ==
    ShellthreadDone(threadCall) =>
        /\ threadCall.result.toffset.sg > 0
        /\ ~threadCall.result.cap
        /\ Count(threadCall.result.ops, "revolve") = 1

\* A thread longer than the body by more than half a pitch: the offset
\* before the floor is negative.
C17_Witness ==
    /\ ShellthreadDone(threadCall)
    /\ RawOffset(threadCall).sg < 0
    /\ threadCall.result.toffset = MinOffset(threadCall)
====
